---- MODULE Spec2Model ----
(***************************************************************************)
(* Agent tool-use orchestration loop (app/services/agent.py) and the       *)
(* scheduler that feeds stored prompts through it                          *)
(* (app/services/scheduler/scheduler.py).                                  *)
(*                                                                         *)
(* A text is a sequence of characters.  A run of the agent is a record     *)
(* holding the generator's local variables and the chunks it has yielded.  *)
(***************************************************************************)
EXTENDS Integers, Sequences, FiniteSets, TLC

VARIABLES
    provider,   \* the provider stub behind every Agent of the process
    runs,       \* agent runs in progress or ended, by run identity
    now,        \* the clock, in seconds since Monday 2024-01-01 00:00:00 UTC
    sched,      \* the scheduler loop
    actions,    \* table scheduledaction
    records,    \* table scheduledrun
    tasks,      \* tasks created by the scheduler, by task identity
    requests,   \* requests the REST API client may still send
    env,        \* the settings and what the system prompt builder finds: sources file, GitHub
    registry,   \* a ToolRegistry under construction
    matcher,    \* a call of the cron matcher
    chat,       \* the chat WebSocket handlers, by connection
    conversation,   \* table conversation
    chatmessage,    \* table chatmessage
    reply           \* the responses of the conversations API, oldest first

vars == <<provider, runs, now, sched, actions, records, tasks, requests,
          env, registry, matcher, chat, conversation, chatmessage, reply>>

\* the chat transport, its tables and the API over them
transport == <<chat, conversation, chatmessage, reply>>

\* what the scheduler never touches
aside == <<env, registry, matcher, transport>>

\* everything but the agent runs
outside == <<provider, now, sched, actions, records, tasks, requests, aside>>

----------------------------------------------------------------------------
(* Bounds of the exploration *)

\* longest provider stub script; the stub repeats its last response for ever
MaxScriptLen == 2

----------------------------------------------------------------------------
(* Texts *)

UsingToolPrefix == <<"\n", "[", "U", "s", "i", "n", "g", " ", "t", "o", "o", "l", ":", " ">>
UsingToolSuffix == <<"]", "\n">>
ErrorExecutingPrefix == <<"E", "r", "r", "o", "r", " ", "e", "x", "e", "c", "u", "t", "i", "n", "g", " ">>
ColonSpace == <<":", " ">>
UnknownToolPrefix == <<"U", "n", "k", "n", "o", "w", "n", " ", "t", "o", "o", "l", ":", " ">>
MaxIterationsNotice == <<"\n", "[", "A", "g", "e", "n", "t", " ", "r", "e", "a", "c", "h", "e", "d", " ", "m", "a", "x", "i", "m", "u", "m", " ", "i", "t", "e", "r", "a", "t", "i", "o", "n", "s", "]">>

\* Optional[...] values: None, or the value x
None == <<>>
Some(x) == <<x>>

\* s[:n]
Take(s, n) == SubSeq(s, 1, IF Len(s) < n THEN Len(s) ELSE n)

\* t occurs in s as a contiguous substring
Contains(s, t) ==
    \E i \in 0..(Len(s) - Len(t)) : SubSeq(s, i + 1, i + Len(t)) = t

RECURSIVE Concat(_)
\* "".join(chunks)
Concat(chunks) ==
    IF chunks = <<>> THEN <<>> ELSE Head(chunks) \o Concat(Tail(chunks))

\* f"\n[Using tool: {tool_name}]\n"
ProgressMarker(tool_name) == UsingToolPrefix \o tool_name \o UsingToolSuffix

\* f"Error executing {tool_name}: {e}"
ErrorResult(tool_name, e) == ErrorExecutingPrefix \o tool_name \o ColonSpace \o e

\* f"Unknown tool: {tool_name}"
UnknownResult(tool_name) == UnknownToolPrefix \o tool_name

----------------------------------------------------------------------------
(* Tools and registry *)

ReadFile == <<"r", "f">>
NoSuchTool == <<"n", "o">>
Notes == <<"n", "t">>
READFILE == <<"R", "F">>

\* base.py ToolParameter
ToolParameter(name, required) ==
    [name |-> name, type |-> "string", required |-> required]

PathParameter == ToolParameter("path", TRUE)
ModeParameter == ToolParameter("mode", FALSE)

\* a tool: what its definition() returns; the description tells two tools
\* of one name apart
Tool(name, description, parameters) ==
    [name |-> name, description |-> description, parameters |-> parameters]

ReadFileTool == Tool(ReadFile, "Read a file", <<PathParameter>>)
ReadFileTool2 == Tool(ReadFile, "Read a file, second edition", <<ModeParameter, PathParameter>>)
NotesTool == Tool(Notes, "Take a note", <<>>)
UpperCaseTool == Tool(READFILE, "Upper-case name", <<PathParameter>>)

\* base.py lines 23-43: to_gemini_schema
to_gemini_schema(defn) ==
    [ name |-> defn.name,
      description |-> defn.description,
      properties |-> {defn.parameters[i].name : i \in 1..Len(defn.parameters)},
      required |-> LET req == SelectSeq(defn.parameters, LAMBDA q : q.required)
                   IN  [i \in 1..Len(req) |-> req[i].name] ]

\* position of the key in a dict, kept in insertion order; 0 when missing
KeyIndex(tools, name) ==
    IF \E i \in 1..Len(tools) : tools[i].name = name
    THEN CHOOSE i \in 1..Len(tools) : tools[i].name = name
    ELSE 0

\* register that keeps the tool already stored under the name
register_KeepsFirst(tools, tool) ==
    IF KeyIndex(tools, tool.name) = 0 THEN Append(tools, tool) ELSE tools

\* register that drops the stored entry and adds the tool at the end
register_MovesToEnd(tools, tool) ==
    Append(SelectSeq(tools, LAMBDA q : q.name # tool.name), tool)

\* registry.py lines 47-49: self._tools[defn.name] = tool; a new key goes to
\* the end of the dict, an existing key keeps its place
register(tools, tool) ==
    IF KeyIndex(tools, tool.name) = 0
    THEN Append(tools, tool)
    ELSE [tools EXCEPT ![KeyIndex(tools, tool.name)] = tool]

\* registry.py lines 51-52: self._tools.get(name)
get(tools, name) ==
    IF KeyIndex(tools, name) = 0 THEN None ELSE Some(tools[KeyIndex(tools, name)])

\* registry.py lines 54-58: one schema per dict value, in dict order
gemini_declarations(tools) == [i \in 1..Len(tools) |-> to_gemini_schema(tools[i])]

\* the registry the agent is built with
DefaultRegistry == register(<<>>, ReadFileTool)

\* names registered in the registry the agent was built with
Registered == {DefaultRegistry[i].name : i \in 1..Len(DefaultRegistry)}

\* self.registry.get(tool_name): the tool, or the absent sentinel
RegistryGet(name) == IF get(DefaultRegistry, name) # None THEN name ELSE "absent"

PathPresent == <<"a">>
PathMissing == <<"x">>
FileContent == <<"d", "a", "t", "a">>
NotFound == <<"n", "o", "t", " ", "f", "o", "u", "n", "d">>

\* await tool.execute(**tool_args): the text it returns or the error it raises
ToolExecute(name, args) ==
    IF args = PathPresent
    THEN [raised |-> FALSE, value |-> FileContent]
    ELSE [raised |-> TRUE, value |-> NotFound]

----------------------------------------------------------------------------
(* Provider responses *)

TextPart(t) == [kind |-> "text", text |-> t, name |-> <<>>, args |-> <<>>]
CallPart(n, a) == [kind |-> "call", text |-> <<>>, name |-> n, args |-> a]
ResultPart(n, res) == [kind |-> "result", text |-> res, name |-> n, args |-> <<>>]

Hello == <<"h", "i">>
Narration == <<"h", "m">>
ProviderError == <<"5", "0", "3">>

Content(ps) == [kind |-> "content", parts |-> ps, err |-> <<>>]
Failure(e) == [kind |-> "error", parts |-> <<>>, err |-> e]

\* the responses a provider stub is built from
Responses ==
    { Content(<<TextPart(Hello)>>),
      Content(<<>>),
      Content(<<CallPart(ReadFile, PathPresent)>>),
      Content(<<CallPart(ReadFile, PathMissing)>>),
      Content(<<CallPart(NoSuchTool, PathPresent)>>),
      Content(<<TextPart(Narration), CallPart(ReadFile, PathMissing),
                CallPart(NoSuchTool, PathPresent), CallPart(ReadFile, PathPresent)>>),
      Failure(ProviderError) }

\* a stub is a script of responses; call number n gets script[n], and the
\* last response for every call past the end of the script
Stubs == UNION { [1..n -> Responses] : n \in 1..MaxScriptLen }

\* self.client.models.generate_content(...) on the n-th call of a run
generate_content(stub, n) == stub[IF n < Len(stub) THEN n ELSE Len(stub)]

RECURSIVE TextOf(_)
\* response.text: the text parts of the first candidate, joined
TextOf(parts) ==
    IF parts = <<>> THEN <<>>
    ELSE (IF Head(parts).kind = "text" THEN Head(parts).text ELSE <<>>)
         \o TextOf(Tail(parts))

\* the scan of the parts for a function_call
has_function_calls(parts) == \E i \in 1..Len(parts) : parts[i].kind = "call"

\* index of the first function_call part at or after i, Len(parts)+1 if none
NextCall(parts, i) ==
    IF \E j \in i..Len(parts) : parts[j].kind = "call"
    THEN CHOOSE j \in i..Len(parts) :
            /\ parts[j].kind = "call"
            /\ \A k \in i..(j - 1) : parts[k].kind # "call"
    ELSE Len(parts) + 1

----------------------------------------------------------------------------
(* System prompt *)

\* the constant text of lines 17-37
SYSTEM_PROMPT_BASE ==
    <<"You are a helpful personal AI assistant running on a home server. (...)">>

Login == <<"o", "c", "t", "o">>
Owner == <<"o", "r", "g">>

\* lines 70-74
UserSection(gh_username) ==
    <<"\n\nThe user's GitHub username is: ">> \o gh_username
    \o <<"\nWhen checking for issues assigned to the user, look for assignee \"">>
    \o gh_username
    \o <<"\". Items in a project board that are assigned to this user are the user's tasks.">>

\* line 80
ProjectsHeader == <<"\n\nKnown GitHub Projects the user has access to:">>

\* line 88
ProjectLine(p) ==
    <<"\n- \"">> \o p.title \o <<"\" (owner: ">> \o p.owner \o <<", project_number: ">>
    \o p.number \o <<", node_id: ">> \o p.id \o <<")">>

\* lines 89-93
ProjectsFooter ==
    <<"\n\nWhen the user asks about their project, tasks, issues, or board, use the projects listed above. (...)">>

\* entries of the list returned by list_accessible_projects: a project, or a
\* null entry, on which p.get raises
Project(title, closed) ==
    [shape |-> "dict", closed |-> closed, title |-> title, owner |-> Owner,
     number |-> <<"1">>, id |-> <<"P", "V", "T">>]
NullEntry ==
    [shape |-> "null", closed |-> FALSE, title |-> <<>>, owner |-> <<>>,
     number |-> <<>>, id |-> <<>>]

Alpha == Project(<<"a">>, FALSE)
Beta == Project(<<"b">>, FALSE)
Closed == Project(<<"c">>, TRUE)

\* the sources file: absent, not valid JSON, or a list of owners
SourcesFiles ==
    { [exists |-> FALSE, valid |-> FALSE, owners |-> <<>>],
      [exists |-> TRUE, valid |-> FALSE, owners |-> <<>>],
      [exists |-> TRUE, valid |-> TRUE, owners |-> <<>>],
      [exists |-> TRUE, valid |-> TRUE, owners |-> <<Owner>>] }

\* GET https://api.github.com/user: the request raises, or answers with a
\* status and a login
UserFetches ==
    { [raised |-> TRUE, status_code |-> 0, login |-> <<>>],
      [raised |-> FALSE, status_code |-> 401, login |-> <<>>],
      [raised |-> FALSE, status_code |-> 200, login |-> <<>>],
      [raised |-> FALSE, status_code |-> 200, login |-> Login] }

\* github.list_accessible_projects: raises, or returns a list
ProjectListings ==
    { [raised |-> TRUE, projects |-> <<>>],
      [raised |-> FALSE, projects |-> <<>>],
      [raised |-> FALSE, projects |-> <<Alpha>>],
      [raised |-> FALSE, projects |-> <<Closed>>],
      [raised |-> FALSE, projects |-> <<Alpha, Closed, Beta>>],
      [raised |-> FALSE, projects |-> <<Alpha, NullEntry, Beta>>] }

Environments ==
    [sources_file : SourcesFiles, github_token : BOOLEAN,
     user : UserFetches, listing : ProjectListings, gemini_api_key : {TRUE}]

\* settings.github_token is empty
NoToken ==
    [sources_file |-> [exists |-> FALSE, valid |-> FALSE, owners |-> <<>>],
     github_token |-> FALSE,
     user |-> [raised |-> TRUE, status_code |-> 0, login |-> <<>>],
     listing |-> [raised |-> TRUE, projects |-> <<>>],
     gemini_api_key |-> TRUE]

\* settings.gemini_api_key is empty, its default: genai.Client(api_key="")
\* raises ValueError
NoKey == [NoToken EXCEPT !.gemini_api_key = FALSE]

RECURSIVE ProjectLines(_, _)
\* lines 81-88: the loop over the projects; an entry that raises ends the
\* loop with the prompt built so far
ProjectLines(projects, prompt) ==
    IF projects = <<>> THEN [raised |-> FALSE, prompt |-> prompt]
    ELSE IF Head(projects).shape = "null" THEN [raised |-> TRUE, prompt |-> prompt]
    ELSE IF Head(projects).closed THEN ProjectLines(Tail(projects), prompt)
    ELSE ProjectLines(Tail(projects), prompt \o ProjectLine(Head(projects)))

\* the builder with a handler that falls back to the base text on any failure
_build_system_prompt_AllOrNothing(e) ==
    LET sources == IF e.sources_file.exists /\ e.sources_file.valid
                   THEN e.sources_file.owners ELSE <<>>
        named == IF e.user.status_code = 200 /\ e.user.login # <<>>
                 THEN SYSTEM_PROMPT_BASE \o UserSection(e.user.login)
                 ELSE SYSTEM_PROMPT_BASE
        listed == ProjectLines(e.listing.projects, named \o ProjectsHeader)
    IN  IF e.sources_file.exists /\ ~e.sources_file.valid THEN SYSTEM_PROMPT_BASE
        ELSE IF ~e.github_token THEN SYSTEM_PROMPT_BASE
        ELSE IF e.user.raised THEN SYSTEM_PROMPT_BASE
        ELSE IF sources = <<>> THEN named
        ELSE IF e.listing.raised THEN SYSTEM_PROMPT_BASE
        ELSE IF e.listing.projects = <<>> THEN named
        ELSE IF listed.raised THEN SYSTEM_PROMPT_BASE
        ELSE listed.prompt \o ProjectsFooter

\* lines 42-97: _build_system_prompt; every failure is swallowed where it
\* happens and the prompt built up to there is returned
_build_system_prompt(e) ==
    LET sources == IF e.sources_file.exists /\ e.sources_file.valid
                   THEN e.sources_file.owners ELSE <<>>
        named == IF e.user.status_code = 200 /\ e.user.login # <<>>
                 THEN SYSTEM_PROMPT_BASE \o UserSection(e.user.login)
                 ELSE SYSTEM_PROMPT_BASE
        listed == ProjectLines(e.listing.projects, named \o ProjectsHeader)
    IN  IF ~e.github_token THEN SYSTEM_PROMPT_BASE
        ELSE IF e.user.raised THEN SYSTEM_PROMPT_BASE
        ELSE IF sources = <<>> THEN named
        ELSE IF e.listing.raised THEN named
        ELSE IF e.listing.projects = <<>> THEN named
        ELSE IF listed.raised THEN listed.prompt
        ELSE listed.prompt \o ProjectsFooter

----------------------------------------------------------------------------
(* Agent.run *)

max_iterations == 10

Message(role, ps) == [role |-> role, parts |-> ps]

UserTurn == Message("user", <<TextPart(Hello)>>)
ModelTurn == Message("model", <<TextPart(Narration)>>)

\* histories a caller passes to run
InitialHistories == { <<UserTurn>>, <<UserTurn, ModelTurn, UserTurn>> }

\* the generator object created by agent.run(messages), not yet advanced
NewRun(messages) ==
    [ pc |-> "START",
      system_prompt |-> <<>>,         \* system_instruction of the config
      messages |-> messages,          \* the caller's list
      contents |-> <<>>,              \* the loop's list
      iteration |-> 0,
      calls |-> 0,                    \* provider calls made
      parts |-> <<>>,                 \* parts of the response being processed
      idx |-> 0,                      \* position of the for loop over parts
      phase |-> "none",
      function_responses |-> <<>>,
      out |-> <<>>,                   \* chunks yielded so far
      executed |-> <<>>,              \* tool executions started, in order
      exc |-> <<>> ]

\* lines 117-124: tools, system prompt, config, contents = copy of messages
BuildSystemPrompt(r) ==
    /\ runs[r].pc = "START"
    /\ runs' = [runs EXCEPT ![r].pc = "AWAITING_MODEL",
                            ![r].system_prompt = _build_system_prompt(env),
                            ![r].contents = runs[r].messages]
    /\ UNCHANGED outside

\* CallProvider without the return after the final text: the loop goes on
CallProvider_NoReturn(r) ==
    /\ runs[r].pc = "AWAITING_MODEL"
    /\ LET n == runs[r].calls + 1
           response == generate_content(provider, n)
           text == TextOf(response.parts)
       IN  IF response.kind = "error"
           THEN runs' = [runs EXCEPT ![r].calls = n,
                                     ![r].pc = "RAISED",
                                     ![r].exc = response.err]
           ELSE IF ~has_function_calls(response.parts)
           THEN runs' = [runs EXCEPT ![r].calls = n,
                                     ![r].out = IF text # <<>> THEN Append(@, text) ELSE @,
                                     ![r].iteration = @ + 1,
                                     ![r].pc = IF runs[r].iteration + 1 < max_iterations
                                               THEN "AWAITING_MODEL" ELSE "DONE"]
           ELSE runs' = [runs EXCEPT ![r].calls = n,
                                     ![r].contents = Append(@, Message("model", response.parts)),
                                     ![r].function_responses = <<>>,
                                     ![r].parts = response.parts,
                                     ![r].idx = NextCall(response.parts, 1),
                                     ![r].phase = "marker",
                                     ![r].pc = "EXECUTING_TOOLS"]
    /\ UNCHANGED outside

\* CallProvider with contents bound to the caller's list instead of a copy
CallProvider_SharedList(r) ==
    /\ runs[r].pc = "AWAITING_MODEL"
    /\ LET n == runs[r].calls + 1
           response == generate_content(provider, n)
           text == TextOf(response.parts)
       IN  IF response.kind = "error"
           THEN runs' = [runs EXCEPT ![r].calls = n,
                                     ![r].pc = "RAISED",
                                     ![r].exc = response.err]
           ELSE IF ~has_function_calls(response.parts)
           THEN runs' = [runs EXCEPT ![r].calls = n,
                                     ![r].out = IF text # <<>> THEN Append(@, text) ELSE @,
                                     ![r].pc = "DONE"]
           ELSE runs' = [runs EXCEPT ![r].calls = n,
                                     ![r].contents = Append(@, Message("model", response.parts)),
                                     ![r].messages = Append(@, Message("model", response.parts)),
                                     ![r].function_responses = <<>>,
                                     ![r].parts = response.parts,
                                     ![r].idx = NextCall(response.parts, 1),
                                     ![r].phase = "marker",
                                     ![r].pc = "EXECUTING_TOOLS"]
    /\ UNCHANGED outside

\* CallProvider with the provider call wrapped in a handler that reports the
\* error as a chunk and ends the run normally
CallProvider_ReportsError(r) ==
    /\ runs[r].pc = "AWAITING_MODEL"
    /\ LET n == runs[r].calls + 1
           response == generate_content(provider, n)
           text == TextOf(response.parts)
       IN  IF response.kind = "error"
           THEN runs' = [runs EXCEPT ![r].calls = n,
                                     ![r].out = Append(@, response.err),
                                     ![r].pc = "DONE"]
           ELSE IF ~has_function_calls(response.parts)
           THEN runs' = [runs EXCEPT ![r].calls = n,
                                     ![r].out = IF text # <<>> THEN Append(@, text) ELSE @,
                                     ![r].pc = "DONE"]
           ELSE runs' = [runs EXCEPT ![r].calls = n,
                                     ![r].contents = Append(@, Message("model", response.parts)),
                                     ![r].function_responses = <<>>,
                                     ![r].parts = response.parts,
                                     ![r].idx = NextCall(response.parts, 1),
                                     ![r].phase = "marker",
                                     ![r].pc = "EXECUTING_TOOLS"]
    /\ UNCHANGED outside

\* lines 151-182: one provider call and the branch on its response
CallProvider(r) ==
    /\ runs[r].pc = "AWAITING_MODEL"
    /\ LET n == runs[r].calls + 1
           response == generate_content(provider, n)
           text == TextOf(response.parts)
       IN  IF response.kind = "error"
           THEN runs' = [runs EXCEPT ![r].calls = n,
                                     ![r].pc = "RAISED",
                                     ![r].exc = response.err]
           ELSE IF ~has_function_calls(response.parts)
           THEN runs' = [runs EXCEPT ![r].calls = n,
                                     ![r].out = IF text # <<>> THEN Append(@, text) ELSE @,
                                     ![r].pc = "DONE"]
           ELSE runs' = [runs EXCEPT ![r].calls = n,
                                     ![r].contents = Append(@, Message("model", response.parts)),
                                     ![r].function_responses = <<>>,
                                     ![r].parts = response.parts,
                                     ![r].idx = NextCall(response.parts, 1),
                                     ![r].phase = "marker",
                                     ![r].pc = "EXECUTING_TOOLS"]
    /\ UNCHANGED outside

RECURSIVE MarkersFrom(_, _)
\* the progress markers of the calls at or after position i
MarkersFrom(parts, i) ==
    IF i > Len(parts) THEN <<>>
    ELSE <<ProgressMarker(parts[i].name)>> \o MarkersFrom(parts, NextCall(parts, i + 1))

\* EmitMarker announcing the whole batch before its first tool
EmitMarker_WholeBatch(r) ==
    /\ runs[r].pc = "EXECUTING_TOOLS"
    /\ runs[r].phase = "marker"
    /\ runs' = [runs EXCEPT ![r].out = IF runs[r].function_responses = <<>>
                                       THEN @ \o MarkersFrom(runs[r].parts, runs[r].idx)
                                       ELSE @,
                            ![r].phase = "lookup"]
    /\ UNCHANGED outside

\* line 192: yield the progress marker of the current call
EmitMarker(r) ==
    /\ runs[r].pc = "EXECUTING_TOOLS"
    /\ runs[r].phase = "marker"
    /\ runs' = [runs EXCEPT ![r].out = Append(@, ProgressMarker(runs[r].parts[runs[r].idx].name)),
                            ![r].phase = "lookup"]
    /\ UNCHANGED outside

\* RecordResult naming every result after the first call of the batch
RecordResult_StaleName(run, result) ==
    LET fr == Append(run.function_responses,
                     ResultPart(run.parts[NextCall(run.parts, 1)].name, result))
        j == NextCall(run.parts, run.idx + 1)
    IN  IF j <= Len(run.parts)
        THEN [run EXCEPT !.function_responses = fr, !.idx = j, !.phase = "marker"]
        ELSE IF run.iteration + 1 < max_iterations
        THEN [run EXCEPT !.function_responses = fr, !.idx = j, !.phase = "none",
                         !.contents = Append(@, Message("function", fr)),
                         !.iteration = @ + 1,
                         !.pc = "AWAITING_MODEL"]
        ELSE [run EXCEPT !.function_responses = fr, !.idx = j, !.phase = "none",
                         !.contents = Append(@, Message("function", fr)),
                         !.iteration = @ + 1,
                         !.out = Append(@, MaxIterationsNotice),
                         !.pc = "EXHAUSTED"]

\* RecordResult with the loop bound off by one
RecordResult_OffByOne(run, result) ==
    LET fr == Append(run.function_responses,
                     ResultPart(run.parts[run.idx].name, result))
        j == NextCall(run.parts, run.idx + 1)
    IN  IF j <= Len(run.parts)
        THEN [run EXCEPT !.function_responses = fr, !.idx = j, !.phase = "marker"]
        ELSE IF run.iteration + 1 <= max_iterations
        THEN [run EXCEPT !.function_responses = fr, !.idx = j, !.phase = "none",
                         !.contents = Append(@, Message("function", fr)),
                         !.iteration = @ + 1,
                         !.pc = "AWAITING_MODEL"]
        ELSE [run EXCEPT !.function_responses = fr, !.idx = j, !.phase = "none",
                         !.contents = Append(@, Message("function", fr)),
                         !.iteration = @ + 1,
                         !.out = Append(@, MaxIterationsNotice),
                         !.pc = "EXHAUSTED"]

\* lines 203-213: record the result of the current call, then go on to the
\* next call, the next iteration, or the exhaustion notice
RecordResult(run, result) ==
    LET fr == Append(run.function_responses,
                     ResultPart(run.parts[run.idx].name, result))
        j == NextCall(run.parts, run.idx + 1)
    IN  IF j <= Len(run.parts)
        THEN [run EXCEPT !.function_responses = fr, !.idx = j, !.phase = "marker"]
        ELSE IF run.iteration + 1 < max_iterations
        THEN [run EXCEPT !.function_responses = fr, !.idx = j, !.phase = "none",
                         !.contents = Append(@, Message("function", fr)),
                         !.iteration = @ + 1,
                         !.pc = "AWAITING_MODEL"]
        ELSE [run EXCEPT !.function_responses = fr, !.idx = j, !.phase = "none",
                         !.contents = Append(@, Message("function", fr)),
                         !.iteration = @ + 1,
                         !.out = Append(@, MaxIterationsNotice),
                         !.pc = "EXHAUSTED"]

\* StartTool without the test for an absent tool: calling it raises
StartTool_AbsentRaises(r) ==
    /\ runs[r].pc = "EXECUTING_TOOLS"
    /\ runs[r].phase = "lookup"
    /\ LET tool_name == runs[r].parts[runs[r].idx].name
       IN  IF RegistryGet(tool_name) # "absent"
           THEN runs' = [runs EXCEPT ![r].phase = "running",
                                     ![r].executed = Append(@, tool_name)]
           ELSE runs' = [runs EXCEPT ![r].pc = "RAISED", ![r].exc = tool_name]
    /\ UNCHANGED outside

\* lines 194-201: look the tool up; start executing it, or answer an absent
\* tool at once
StartTool(r) ==
    /\ runs[r].pc = "EXECUTING_TOOLS"
    /\ runs[r].phase = "lookup"
    /\ LET tool_name == runs[r].parts[runs[r].idx].name
       IN  IF RegistryGet(tool_name) # "absent"
           THEN runs' = [runs EXCEPT ![r].phase = "running",
                                     ![r].executed = Append(@, tool_name)]
           ELSE runs' = [runs EXCEPT ![r] = RecordResult(runs[r], UnknownResult(tool_name))]
    /\ UNCHANGED outside

\* FinishTool without the try/except: the tool's error leaves the loop
FinishTool_Propagates(r) ==
    /\ runs[r].pc = "EXECUTING_TOOLS"
    /\ runs[r].phase = "running"
    /\ LET part == runs[r].parts[runs[r].idx]
           outcome == ToolExecute(part.name, part.args)
       IN  IF outcome.raised
           THEN runs' = [runs EXCEPT ![r].pc = "RAISED", ![r].exc = outcome.value]
           ELSE runs' = [runs EXCEPT ![r] = RecordResult(runs[r], outcome.value)]
    /\ UNCHANGED outside

\* lines 196-199: the execution returns or raises
FinishTool(r) ==
    /\ runs[r].pc = "EXECUTING_TOOLS"
    /\ runs[r].phase = "running"
    /\ LET part == runs[r].parts[runs[r].idx]
           outcome == ToolExecute(part.name, part.args)
           result == IF outcome.raised
                     THEN ErrorResult(part.name, outcome.value)
                     ELSE outcome.value
       IN  runs' = [runs EXCEPT ![r] = RecordResult(runs[r], result)]
    /\ UNCHANGED outside

AgentStep(r) ==
    \/ BuildSystemPrompt(r)
    \/ CallProvider(r)
    \/ EmitMarker(r)
    \/ StartTool(r)
    \/ FinishTool(r)

----------------------------------------------------------------------------
(* One run of the agent, driven to its end by its caller *)

\* no registry is being built, the matcher is not being called and no chat
\* client is connected
Unused ==
    /\ registry = <<>>
    /\ matcher = <<>>
    /\ chat = <<>>
    /\ conversation = <<>>
    /\ chatmessage = <<>>
    /\ reply = <<>>

Init ==
    /\ provider \in Stubs
    /\ \E m \in InitialHistories : runs = [r \in {0} |-> NewRun(m)]
    /\ now = 0
    /\ sched = [pc |-> "stopped", wake |-> 0, last |-> "none", evaluated |-> {}, batch |-> {}, next_task |-> 1, cycles |-> 0]
    /\ actions = <<>>
    /\ records = <<>>
    /\ tasks = <<>>
    /\ requests = 0
    /\ env = NoToken
    /\ Unused

Next == \E r \in DOMAIN runs : AgentStep(r)

Spec == Init /\ [][Next]_vars

----------------------------------------------------------------------------
(* Properties of one run *)

Terminal == {"DONE", "EXHAUSTED", "RAISED"}

IsPrefix(s, t) == Len(s) <= Len(t) /\ SubSeq(t, 1, Len(s)) = s

\* names of the tool-call parts of a message, in order
CallNames(parts) ==
    LET calls == SelectSeq(parts, LAMBDA p : p.kind = "call")
    IN  [i \in 1..Len(calls) |-> calls[i].name]

\* message i of a history is answered: the next message has role function
\* and holds one result part per call part, same names, same order
Answered(contents, i) ==
    /\ i + 1 <= Len(contents)
    /\ contents[i + 1].role = "function"
    /\ \A j \in 1..Len(contents[i + 1].parts) : contents[i + 1].parts[j].kind = "result"
    /\ [j \in 1..Len(contents[i + 1].parts) |-> contents[i + 1].parts[j].name]
          = CallNames(contents[i].parts)

\* C1: whenever the provider is about to be called, and whenever the run has
\* ended, every model message of the history that holds tool calls is
\* immediately followed by one function message holding exactly one result
\* per call, with the same names in the same order.
PairingInvariant ==
    \A r \in DOMAIN runs :
        runs[r].pc \in {"AWAITING_MODEL"} \cup Terminal =>
            \A i \in 1..Len(runs[r].contents) :
                (/\ runs[r].contents[i].role = "model"
                 /\ has_function_calls(runs[r].contents[i].parts))
                    => Answered(runs[r].contents, i)

\* a finished run whose history holds a batch mixing a raising tool, an
\* unknown tool and a successful tool, each answered
PairingWitness ==
    \E r \in DOMAIN runs :
        /\ runs[r].pc = "DONE"
        /\ \E i \in 1..(Len(runs[r].contents) - 1) :
              /\ Len(CallNames(runs[r].contents[i].parts)) = 3
              /\ runs[r].contents[i + 1].parts[1].text = ErrorResult(ReadFile, NotFound)
              /\ runs[r].contents[i + 1].parts[2].text = UnknownResult(NoSuchTool)
              /\ runs[r].contents[i + 1].parts[3].text = FileContent

\* every response of the stub holds a tool call
AlwaysCalls(stub) ==
    \A n \in 1..Len(stub) : stub[n].kind = "content" /\ has_function_calls(stub[n].parts)

\* C2: a run makes at most max_iterations provider calls; when every response
\* holds a tool call the run ends only by exhaustion, after exactly
\* max_iterations calls.
ProviderCallBound ==
    \A r \in DOMAIN runs :
        /\ runs[r].calls <= max_iterations
        /\ runs[r].pc = "EXHAUSTED" => runs[r].calls = max_iterations
        /\ (AlwaysCalls(provider) /\ runs[r].pc \in Terminal)
              => (runs[r].pc = "EXHAUSTED" /\ runs[r].calls = max_iterations)

\* the run of an always-calling stub has stopped after its tenth call
ProviderCallBoundWitness ==
    \E r \in DOMAIN runs :
        /\ AlwaysCalls(provider)
        /\ runs[r].pc = "EXHAUSTED"
        /\ runs[r].calls = max_iterations

\* every response of the stub asks for the same unregistered tool
AlwaysUnknown(stub) ==
    \A n \in 1..Len(stub) : stub[n] = Content(<<CallPart(NoSuchTool, PathPresent)>>)

\* every result recorded so far says the tool is unknown
AllAnsweredUnknown(run) ==
    /\ \A i \in 1..Len(run.contents) :
          run.contents[i].role = "function" =>
              \A j \in 1..Len(run.contents[i].parts) :
                  run.contents[i].parts[j].text
                      = UnknownResult(run.contents[i].parts[j].name)
    /\ run.executed = <<>>

\* C3: under a stub that always asks for the same unregistered tool the run
\* never raises, every call is answered "Unknown tool: <name>", and the run
\* reaches the iteration cap, where the last chunk is the
\* maximum-iterations notice.
UnknownToolTerminates ==
    /\ [](\A r \in DOMAIN runs :
            AlwaysUnknown(provider) =>
                /\ runs[r].pc # "RAISED"
                /\ AllAnsweredUnknown(runs[r])
                /\ runs[r].pc \in Terminal =>
                      /\ runs[r].pc = "EXHAUSTED"
                      /\ runs[r].calls = max_iterations
                      /\ runs[r].out[Len(runs[r].out)] = MaxIterationsNotice)
    /\ (AlwaysUnknown(provider) => <>(\A r \in DOMAIN runs : runs[r].pc = "EXHAUSTED"))

\* an exhausted run with ten unknown-tool answers in its history
UnknownToolWitness ==
    \E r \in DOMAIN runs :
        /\ AlwaysUnknown(provider)
        /\ runs[r].pc = "EXHAUSTED"
        /\ Len(runs[r].contents) = Len(runs[r].messages) + 2 * max_iterations
        /\ runs[r].contents[Len(runs[r].contents)].parts[1].text = UnknownResult(NoSuchTool)

\* the first response of the stub holds no tool call
FirstIsFinal(stub) == stub[1].kind = "content" /\ ~has_function_calls(stub[1].parts)

\* C4 as stated: with a first response free of tool calls the run makes one
\* provider call and emits exactly one chunk, the provider's text.
FinalAnswerIsOneChunk ==
    \A r \in DOMAIN runs :
        (FirstIsFinal(provider) /\ runs[r].pc = "DONE") =>
            /\ runs[r].calls = 1
            /\ Len(runs[r].out) = 1
            /\ Concat(runs[r].out) = TextOf(provider[1].parts)

\* C4 amended: with a first response free of tool calls the run makes exactly
\* one provider call and ends in DONE; its output is determined by that
\* response: the single chunk holding the text when the text is not empty,
\* and no chunk at all when it is empty, so the concatenation of the chunks
\* is the provider's text and holds no marker and no notice.
FinalAnswerOutput ==
    \A r \in DOMAIN runs :
        FirstIsFinal(provider) =>
            /\ runs[r].calls <= 1
            /\ runs[r].pc \in Terminal =>
                  /\ runs[r].pc = "DONE"
                  /\ runs[r].calls = 1
                  /\ runs[r].out = IF TextOf(provider[1].parts) # <<>>
                                   THEN <<TextOf(provider[1].parts)>>
                                   ELSE <<>>
                  /\ Concat(runs[r].out) = TextOf(provider[1].parts)
            /\ runs[r].pc \notin Terminal => runs[r].out = <<>>

\* a run that answered with the provider's text after one call
FinalAnswerWitness ==
    \E r \in DOMAIN runs :
        /\ FirstIsFinal(provider)
        /\ runs[r].pc = "DONE"
        /\ runs[r].calls = 1
        /\ runs[r].out = <<Hello>>

RECURSIVE RegisteredCalls(_)
\* names of the registered tools called by the model messages of a history
RegisteredCalls(contents) ==
    IF contents = <<>> THEN <<>>
    ELSE (IF Head(contents).role = "model"
          THEN SelectSeq(CallNames(Head(contents).parts), LAMBDA n : n \in Registered)
          ELSE <<>>) \o RegisteredCalls(Tail(contents))

\* the j-th result of function message i+1 answers the j-th call of message i
RaisedCallsReported(contents) ==
    \A i \in 1..(Len(contents) - 1) :
        (contents[i].role = "model" /\ contents[i + 1].role = "function") =>
            LET calls == SelectSeq(contents[i].parts, LAMBDA p : p.kind = "call")
            IN  \A j \in 1..Len(calls) :
                    (/\ calls[j].name \in Registered
                     /\ ToolExecute(calls[j].name, calls[j].args).raised)
                        => /\ j <= Len(contents[i + 1].parts)
                           /\ Contains(contents[i + 1].parts[j].text, calls[j].name)
                           /\ Contains(contents[i + 1].parts[j].text,
                                       ToolExecute(calls[j].name, calls[j].args).value)

\* C5: a tool that raises does not make the run raise: the run raises only
\* when the provider call does; the result recorded for a raising call holds
\* the tool name and the error's description; every registered tool called in
\* a batch is executed, also after a raising one; and each finished batch is
\* followed by the next provider call or by exhaustion.
ToolErrorIsCaught ==
    \A r \in DOMAIN runs :
        /\ runs[r].pc = "RAISED" =>
              /\ generate_content(provider, runs[r].calls).kind = "error"
              /\ runs[r].exc = generate_content(provider, runs[r].calls).err
        /\ RaisedCallsReported(runs[r].contents)
        /\ runs[r].pc \in {"AWAITING_MODEL"} \cup Terminal =>
              runs[r].executed = RegisteredCalls(runs[r].contents)
        /\ runs[r].pc = "AWAITING_MODEL" =>
              /\ runs[r].calls = runs[r].iteration
              /\ runs[r].iteration < max_iterations
        /\ runs[r].pc \in {"DONE", "RAISED"} => runs[r].calls = runs[r].iteration + 1

\* a raising tool was reported, the tool after it ran, and the provider was
\* called again
ToolErrorWitness ==
    \E r \in DOMAIN runs :
        /\ runs[r].calls >= 2
        /\ runs[r].pc # "RAISED"
        /\ \E i \in 1..Len(runs[r].contents) :
              /\ runs[r].contents[i].role = "function"
              /\ Len(runs[r].contents[i].parts) = 3
              /\ runs[r].contents[i].parts[1].text = ErrorResult(ReadFile, NotFound)
              /\ runs[r].contents[i].parts[3].text = FileContent
        /\ Len(runs[r].executed) >= 2

\* C6: while a tool of a batch is being executed, the text the model sent
\* along with the batch has been emitted on the output stream.
TextBeforeTools ==
    \A r \in DOMAIN runs :
        (/\ runs[r].pc = "EXECUTING_TOOLS"
         /\ runs[r].phase = "running"
         /\ TextOf(runs[r].parts) # <<>>)
            => \E c \in 1..Len(runs[r].out) :
                  Contains(runs[r].out[c], TextOf(runs[r].parts))

\* C7 as stated: when the run has finished, the caller's history holds every
\* message the loop appended, after the original messages.
CallerHistoryUpdated ==
    \A r \in DOMAIN runs :
        runs[r].pc \in Terminal => runs[r].messages = runs[r].contents

\* C7 amended: run never changes the caller's history; the messages the loop
\* appends go to its own sequence, which starts as a copy of the caller's
\* history and only grows during the run.
CallerHistoryBorrowed ==
    [][\A r \in DOMAIN runs :
          /\ r \in DOMAIN runs'
          /\ runs'[r].messages = runs[r].messages
          /\ runs'[r].pc # "START" => IsPrefix(runs'[r].messages, runs'[r].contents)
          /\ runs[r].pc # "START" => IsPrefix(runs[r].contents, runs'[r].contents)]_vars

\* a finished run whose own sequence grew past the caller's history
CallerHistoryWitness ==
    \E r \in DOMAIN runs :
        /\ runs[r].pc \in Terminal
        /\ Len(runs[r].contents) > Len(runs[r].messages)
        /\ runs[r].contents[Len(runs[r].messages) + 1].role = "model"
        /\ runs[r].contents[Len(runs[r].messages) + 2].role = "function"

\* C11: an error raised by the provider call is not caught by the loop: the
\* step that makes the failing call ends the run in RAISED with the provider's
\* error, in the iteration of that call, after a single attempt and without
\* emitting a chunk or touching the history; a raised run takes no further
\* step, so no retry, chunk or exhaustion notice follows.
ProviderErrorPropagates ==
    [][\A r \in DOMAIN runs :
          /\ r \in DOMAIN runs'
          /\ (/\ runs[r].pc = "AWAITING_MODEL"
              /\ generate_content(provider, runs[r].calls + 1).kind = "error"
              /\ runs'[r] # runs[r])
                => /\ runs'[r].pc = "RAISED"
                   /\ runs'[r].exc = generate_content(provider, runs[r].calls + 1).err
                   /\ runs'[r].calls = runs[r].calls + 1
                   /\ runs'[r].iteration = runs[r].iteration
                   /\ runs'[r].out = runs[r].out
                   /\ runs'[r].contents = runs[r].contents
          /\ runs[r].pc = "RAISED" => runs'[r] = runs[r]
          /\ runs'[r].pc = "RAISED" =>
                (Len(runs'[r].out) > 0 => runs'[r].out[Len(runs'[r].out)] # MaxIterationsNotice)]_vars

\* a run whose second provider call failed, after the markers of the first
\* batch had been emitted
ProviderErrorWitness ==
    \E r \in DOMAIN runs :
        /\ runs[r].pc = "RAISED"
        /\ runs[r].calls = 2
        /\ runs[r].iteration = 1
        /\ runs[r].exc = ProviderError
        /\ Len(runs[r].out) >= 1

\* first null entry of a project list, Len + 1 if there is none
FirstNull(projects) ==
    IF \E i \in 1..Len(projects) : projects[i].shape = "null"
    THEN CHOOSE i \in 1..Len(projects) :
            /\ projects[i].shape = "null"
            /\ \A k \in 1..(i - 1) : projects[k].shape # "null"
    ELSE Len(projects) + 1

\* some step of the enrichment fails: the sources file does not parse, the
\* user request raises, or the project listing raises or holds a null entry
EnrichmentFailed(e) ==
    \/ e.sources_file.exists /\ ~e.sources_file.valid
    \/ e.github_token /\ e.user.raised
    \/ /\ e.github_token /\ ~e.user.raised
       /\ e.sources_file.exists /\ e.sources_file.valid /\ e.sources_file.owners # <<>>
       /\ \/ e.listing.raised
          \/ FirstNull(e.listing.projects) <= Len(e.listing.projects)

\* the enrichment the steps completed before a failure leave behind
CompletedEnrichment(e) ==
    LET reached == e.github_token /\ ~e.user.raised
        named == reached /\ e.user.status_code = 200 /\ e.user.login # <<>>
        listed == /\ reached
                  /\ e.sources_file.exists /\ e.sources_file.valid
                  /\ e.sources_file.owners # <<>>
                  /\ ~e.listing.raised
                  /\ e.listing.projects # <<>>
        ps == e.listing.projects
        shown == SelectSeq(SubSeq(ps, 1, FirstNull(ps) - 1), LAMBDA q : ~q.closed)
    IN  (IF named THEN UserSection(e.user.login) ELSE <<>>)
        \o (IF listed
            THEN ProjectsHeader \o Concat([i \in 1..Len(shown) |-> ProjectLine(shown[i])])
            ELSE <<>>)
        \o (IF listed /\ FirstNull(ps) > Len(ps) THEN ProjectsFooter ELSE <<>>)

PromptStubs ==
    { <<Content(<<TextPart(Hello)>>)>>,
      <<Failure(ProviderError)>>,
      <<Content(<<CallPart(ReadFile, PathMissing), CallPart(NoSuchTool, PathPresent)>>),
        Content(<<TextPart(Hello)>>)>> }

InitPrompt ==
    /\ provider \in PromptStubs
    /\ runs = [r \in {0} |-> NewRun(<<UserTurn>>)]
    /\ now = 0
    /\ sched = [pc |-> "stopped", wake |-> 0, last |-> "none", evaluated |-> {}, batch |-> {}, next_task |-> 1, cycles |-> 0]
    /\ actions = <<>>
    /\ records = <<>>
    /\ tasks = <<>>
    /\ requests = 0
    /\ env \in Environments
    /\ Unused

\* one run under every environment of the prompt builder
SpecPrompt == InitPrompt /\ [][Next]_vars

\* tool-call parts before position i
CallsBefore(parts, i) == Cardinality({k \in 1..(i - 1) : parts[k].kind = "call"})

\* C17: within an iteration the marker naming a call is emitted before the
\* call's execution starts, and only when every earlier call of the batch
\* has its result; an execution starts right after its own marker and only
\* when no execution of the run is going on; its end records the result of
\* that call, after the results of the calls before it, and emits no marker;
\* so the results recorded are those of the first calls of the batch, in
\* call order.
ToolsRunInCallOrder ==
    /\ [][\A r \in DOMAIN runs :
            r \in DOMAIN runs' =>
            LET a == runs[r]
                b == runs'[r]
            IN  /\ (a.pc = "EXECUTING_TOOLS" /\ a.phase = "marker" /\ b # a) =>
                      /\ b.out = Append(a.out, ProgressMarker(a.parts[a.idx].name))
                      /\ b.executed = a.executed
                      /\ Len(a.function_responses) = CallsBefore(a.parts, a.idx)
                /\ (b.phase = "running" /\ a.phase # "running") =>
                      /\ a.phase = "lookup"
                      /\ a.out[Len(a.out)] = ProgressMarker(a.parts[a.idx].name)
                      /\ b.out = a.out
                      /\ b.executed = Append(a.executed, a.parts[a.idx].name)
                      /\ b.function_responses = a.function_responses
                /\ (a.phase = "running" /\ b # a) =>
                      /\ b.phase # "running"
                      /\ Len(b.function_responses) = Len(a.function_responses) + 1
                      /\ SubSeq(b.function_responses, 1, Len(a.function_responses))
                            = a.function_responses
                      /\ b.function_responses[Len(b.function_responses)].name
                            = a.parts[a.idx].name
                      /\ b.executed = a.executed
                      /\ \A c \in 1..Len(b.out) :
                            c > Len(a.out) => b.out[c] = MaxIterationsNotice]_vars
    /\ [](\A r \in DOMAIN runs :
            runs[r].pc = "EXECUTING_TOOLS" =>
                /\ Len(runs[r].function_responses) = CallsBefore(runs[r].parts, runs[r].idx)
                /\ [j \in 1..Len(runs[r].function_responses) |->
                        runs[r].function_responses[j].name]
                      = SubSeq(CallNames(runs[r].parts), 1, Len(runs[r].function_responses)))

\* the third call of a batch is being executed: the three markers are out,
\* two results are recorded and the first tool has run
ToolsRunInCallOrderWitness ==
    \E r \in DOMAIN runs :
        /\ runs[r].pc = "EXECUTING_TOOLS"
        /\ runs[r].phase = "running"
        /\ CallsBefore(runs[r].parts, runs[r].idx) = 2
        /\ Len(runs[r].function_responses) = 2
        /\ runs[r].out = <<ProgressMarker(ReadFile), ProgressMarker(NoSuchTool),
                           ProgressMarker(ReadFile)>>
        /\ runs[r].executed = <<ReadFile, ReadFile>>

\* the caller drains the generator: a run that can take a step takes it
FairSpec == Init /\ [][Next]_vars /\ WF_vars(Next)

----------------------------------------------------------------------------
(* A registry being filled *)

\* register calls made on one registry
MaxRegisters == 3

\* tools handed to register, and names asked of get
Tools == {ReadFileTool, ReadFileTool2, NotesTool, UpperCaseTool}
Names == {ReadFile, READFILE, Notes, NoSuchTool}

\* registry.py lines 44-45, with the calls made so far
NewRegistry == [_tools |-> <<>>, registered |-> <<>>, answer |-> None, declared |-> None]

Register(tool) ==
    /\ Len(registry.registered) < MaxRegisters
    /\ registry' = [_tools |-> register(registry._tools, tool),
                    registered |-> Append(registry.registered, tool),
                    answer |-> None,
                    declared |-> None]
    /\ UNCHANGED <<provider, runs, now, sched, actions, records, tasks, requests,
                   env, matcher, transport>>

Get(name) ==
    /\ registry' = [registry EXCEPT
                      !.answer = Some([name |-> name, found |-> get(registry._tools, name)])]
    /\ UNCHANGED <<provider, runs, now, sched, actions, records, tasks, requests,
                   env, matcher, transport>>

Declare ==
    /\ registry' = [registry EXCEPT !.declared = Some(gemini_declarations(registry._tools))]
    /\ UNCHANGED <<provider, runs, now, sched, actions, records, tasks, requests,
                   env, matcher, transport>>

InitRegistry ==
    /\ provider = <<Content(<<TextPart(Hello)>>)>>
    /\ runs = <<>>
    /\ now = 0
    /\ sched = [pc |-> "stopped", wake |-> 0, last |-> "none", evaluated |-> {}, batch |-> {}, next_task |-> 1, cycles |-> 0]
    /\ actions = <<>>
    /\ records = <<>>
    /\ tasks = <<>>
    /\ requests = 0
    /\ env = NoToken
    /\ registry = NewRegistry
    /\ matcher = <<>>
    /\ chat = <<>>
    /\ conversation = <<>>
    /\ chatmessage = <<>>
    /\ reply = <<>>

NextRegistry ==
    \/ \E tool \in Tools : Register(tool)
    \/ \E name \in Names : Get(name)
    \/ Declare

SpecRegistry == InitRegistry /\ [][NextRegistry]_vars

\* positions of the register calls made with a tool of that name
CallsFor(log, name) == {i \in 1..Len(log) : log[i].name = name}

\* the tool of the last register call made under the name
LastRegistered(log, name) ==
    IF CallsFor(log, name) = {} THEN None
    ELSE Some(log[CHOOSE i \in CallsFor(log, name) : \A k \in CallsFor(log, name) : k <= i])

FirstCall(log, name) == CHOOSE i \in CallsFor(log, name) : \A k \in CallsFor(log, name) : i <= k
LastCall(log, name) == CHOOSE i \in CallsFor(log, name) : \A k \in CallsFor(log, name) : k <= i

\* C14: after any sequence of register calls, get(name) is the tool of the
\* last register call made under exactly that name, and the absent value,
\* returned and not raised, for a name no call was made under.
RegistryGetsLatest ==
    /\ \A name \in Names :
          get(registry._tools, name) = LastRegistered(registry.registered, name)
    /\ registry.answer # None =>
          registry.answer[1].found
              = LastRegistered(registry.registered, registry.answer[1].name)

\* get answered with the second tool registered under a name, a tool with
\* the same name in upper case being registered between the two, and a name
\* never registered is absent
RegistryGetsLatestWitness ==
    /\ registry.registered = <<ReadFileTool, UpperCaseTool, ReadFileTool2>>
    /\ registry.answer = Some([name |-> ReadFile, found |-> Some(ReadFileTool2)])
    /\ get(registry._tools, READFILE) = Some(UpperCaseTool)
    /\ get(registry._tools, NoSuchTool) = None

\* one declaration per registered name, each describing the tool registered
\* last under its name
OnePerName(decl, log) ==
    /\ Len(decl) = Cardinality({log[i].name : i \in 1..Len(log)})
    /\ \A i \in 1..Len(decl) :
          /\ CallsFor(log, decl[i].name) # {}
          /\ decl[i] = to_gemini_schema(LastRegistered(log, decl[i].name)[1])
    /\ \A i, j \in 1..Len(decl) : i # j => decl[i].name # decl[j].name

\* C15 as stated: the declarations hold one entry per registered name, in
\* the order in which the tools they describe were registered.
DeclarationsFollowLastRegistration ==
    LET decl == gemini_declarations(registry._tools)
        log == registry.registered
    IN  /\ OnePerName(decl, log)
        /\ \A i, j \in 1..Len(decl) :
              i < j => LastCall(log, decl[i].name) < LastCall(log, decl[j].name)

\* C15 amended: the declarations hold one entry per registered name, each
\* describing the tool registered last under that name, in the order in which
\* the names were first registered: registering a tool under a name already
\* present replaces the entry where it stands.
DeclarationsFollowFirstRegistration ==
    LET decl == gemini_declarations(registry._tools)
        log == registry.registered
    IN  /\ OnePerName(decl, log)
        /\ \A i, j \in 1..Len(decl) :
              i < j => FirstCall(log, decl[i].name) < FirstCall(log, decl[j].name)
        /\ registry.declared # None => registry.declared[1] = decl

\* after register(A), register(B), register(A2) the declarations are A2's
\* entry followed by B's
DeclarationsWitness ==
    /\ registry.registered = <<ReadFileTool, NotesTool, ReadFileTool2>>
    /\ registry.declared
          = Some(<<to_gemini_schema(ReadFileTool2), to_gemini_schema(NotesTool)>>)

----------------------------------------------------------------------------
(* Cron matcher *)

Whitespace == {" ", "\t", "\n"}

Digits == {"0", "1", "2", "3", "4", "5", "6", "7", "8", "9"}

DigitValue(c) ==
    CASE c = "0" -> 0 [] c = "1" -> 1 [] c = "2" -> 2 [] c = "3" -> 3
      [] c = "4" -> 4 [] c = "5" -> 5 [] c = "6" -> 6 [] c = "7" -> 7
      [] c = "8" -> 8 [] c = "9" -> 9

RECURSIVE SplitWords(_, _, _)
\* str.split(): the maximal runs of non-whitespace characters
SplitWords(s, word, acc) ==
    IF s = <<>>
    THEN IF word = <<>> THEN acc ELSE Append(acc, word)
    ELSE IF Head(s) \in Whitespace
    THEN SplitWords(Tail(s), <<>>, IF word = <<>> THEN acc ELSE Append(acc, word))
    ELSE SplitWords(Tail(s), Append(word, Head(s)), acc)

RECURSIVE SplitCommas(_, _, _)
\* str.split(","): the pieces between commas, empty pieces included
SplitCommas(s, piece, acc) ==
    IF s = <<>> THEN Append(acc, piece)
    ELSE IF Head(s) = ","
    THEN SplitCommas(Tail(s), <<>>, Append(acc, piece))
    ELSE SplitCommas(Tail(s), Append(piece, Head(s)), acc)

\* the digits of an integer literal, after an optional sign
Unsigned(p) == IF p # <<>> /\ Head(p) \in {"+", "-"} THEN Tail(p) ELSE p

\* int(p) does not raise ValueError
IsInt(p) ==
    /\ Unsigned(p) # <<>>
    /\ \A i \in 1..Len(Unsigned(p)) : Unsigned(p)[i] \in Digits

RECURSIVE Magnitude(_, _)
Magnitude(ds, acc) ==
    IF ds = <<>> THEN acc ELSE Magnitude(Tail(ds), 10 * acc + DigitValue(Head(ds)))

\* int(p)
IntValue(p) ==
    IF Head(p) = "-" THEN 0 - Magnitude(Unsigned(p), 0) ELSE Magnitude(Unsigned(p), 0)

\* FieldMatches skipping the list items that are not integers
FieldMatches_Lenient(pattern, value) ==
    IF pattern = <<"*">> THEN TRUE
    ELSE IF \E i \in 1..Len(pattern) : pattern[i] = ","
    THEN LET ps == SplitCommas(pattern, <<>>, <<>>)
         IN  \E i \in 1..Len(ps) : IsInt(ps[i]) /\ IntValue(ps[i]) = value
    ELSE IsInt(pattern) /\ IntValue(pattern) = value

\* one (pattern, value) pair of the loop of _cron_matches_now
FieldMatches(pattern, value) ==
    IF pattern = <<"*">> THEN TRUE
    ELSE IF \E i \in 1..Len(pattern) : pattern[i] = ","
    THEN LET ps == SplitCommas(pattern, <<>>, <<>>)
         IN  /\ \A i \in 1..Len(ps) : IsInt(ps[i])
             /\ \E i \in 1..Len(ps) : IntValue(ps[i]) = value
    ELSE IsInt(pattern) /\ IntValue(pattern) = value

\* datetime fields of a clock value; the clock starts on Monday 2024-01-01
DateOf(t) ==
    [ minute |-> (t \div 60) % 60,
      hour |-> (t \div 3600) % 24,
      day |-> 1 + (t \div 86400),
      month |-> 1,
      isoweekday |-> ((t \div 86400) % 7) + 1 ]

_cron_matches_now(cron_expr, t) ==
    LET parts == SplitWords(cron_expr, <<>>, <<>>)
        d == DateOf(t)
    IN  /\ Len(parts) = 5
        /\ FieldMatches(parts[1], d.minute)
        /\ FieldMatches(parts[2], d.hour)
        /\ FieldMatches(parts[3], d.day)
        /\ FieldMatches(parts[4], d.month)
        /\ FieldMatches(parts[5], d.isoweekday % 7)

----------------------------------------------------------------------------
(* The matcher called on its own *)

Star == <<"*">>

MinuteFields ==
    { Star, <<"0">>, <<"0", "0">>, <<"1">>, <<"0", ",", "1">>, <<"1", ",", "x">>,
      <<"*", "/", "2">>, <<"0", "-", "5">>, <<"+", "0">>, <<"0", ",">> }
HourFields == { Star, <<"7">>, <<"0", "7">>, <<"7", ",", "8">> }
DayFields == { Star, <<"7">> }
MonthFields == { Star, <<"1">>, <<"2">> }
WeekdayFields == { Star, <<"0">>, <<"7">>, <<"1">>, <<"6", ",", "0">> }

Blank == <<" ">>

SevenOClock == <<"0", " ", "7", " ", "*", " ", "*", " ", "*">>

\* five fields, and expressions with the wrong number of fields or with
\* other whitespace
Expressions ==
    { mi \o Blank \o h \o Blank \o d \o Blank \o mo \o Blank \o w :
        mi \in MinuteFields, h \in HourFields, d \in DayFields,
        mo \in MonthFields, w \in WeekdayFields }
    \cup { <<>>,
           <<"0", " ", "7", " ", "*", " ", "*">>,
           <<"0", " ", "7", " ", "*", " ", "*", " ", "*", " ", "*">>,
           <<" ", "0", " ", " ", "7", "\t", "*", " ", "*", " ", "*", "\n">>,
           <<"0", "7", " ", "*", " ", "*", " ", "*">> }

\* 07:00:00, 07:00:30, 07:01, 08:00 and 00:00 of the seven days from Monday
\* 2024-01-01 to Sunday 2024-01-07
CronTimes ==
    { 86400 * d + s : d \in 0..6, s \in {25200, 25230, 25260, 28800, 0} }

\* one call of the matcher
Match ==
    /\ matcher.result = None
    /\ matcher' = [matcher EXCEPT
                     !.result = Some(_cron_matches_now(matcher.cron_expr, now))]
    /\ UNCHANGED <<provider, runs, now, sched, actions, records, tasks, requests,
                   env, registry, transport>>

InitCron ==
    /\ provider = <<Content(<<TextPart(Hello)>>)>>
    /\ runs = <<>>
    /\ now \in CronTimes
    /\ sched = [pc |-> "stopped", wake |-> 0, last |-> "none", evaluated |-> {}, batch |-> {}, next_task |-> 1, cycles |-> 0]
    /\ actions = <<>>
    /\ records = <<>>
    /\ tasks = <<>>
    /\ requests = 0
    /\ env = NoToken
    /\ registry = <<>>
    /\ \E e \in Expressions : matcher = [cron_expr |-> e, result |-> None]
    /\ chat = <<>>
    /\ conversation = <<>>
    /\ chatmessage = <<>>
    /\ reply = <<>>

NextCron == Match

SpecCron == InitCron /\ [][NextCron]_vars

\* positions of the separators of a text, with 0 and Len + 1 at the ends
Cuts(s, seps) == {0, Len(s) + 1} \cup {i \in 1..Len(s) : s[i] \in seps}

\* the non-empty stretches of a text between two neighbouring separators
Stretches(s, seps) ==
    { <<a, b>> \in Cuts(s, seps) \X Cuts(s, seps) :
        /\ a + 1 < b
        /\ \A k \in (a + 1)..(b - 1) : k \notin Cuts(s, seps) }

\* the whitespace-separated fields of an expression, by position
FieldsOf(s) ==
    LET st == Stretches(s, Whitespace)
    IN  [k \in 1..Cardinality(st) |->
            LET ab == CHOOSE x \in st : Cardinality({y \in st : y[1] < x[1]}) = k - 1
            IN  SubSeq(s, ab[1] + 1, ab[2] - 1)]

RECURSIVE Decimal(_)
\* the decimal numeral of a natural number
Decimal(n) ==
    IF n < 10 THEN <<CHOOSE c \in Digits : DigitValue(c) = n>>
    ELSE Decimal(n \div 10) \o <<CHOOSE c \in Digits : DigitValue(c) = n % 10>>

\* the text is a numeral of the natural number n: digits only, after an
\* optional sign, spelling n once the leading zeros are dropped
Spells(field, n) ==
    \E sign \in {<<>>, <<"+">>} \cup (IF n = 0 THEN {<<"-">>} ELSE {}) :
        \E zeros \in 0..Len(field) :
            field = sign \o [i \in 1..zeros |-> "0"] \o Decimal(n)

\* the text is a numeral of some integer the components of a time can take,
\* or of another integer
IsNumeral(field) ==
    /\ field # <<>>
    /\ LET body == IF field[1] \in {"+", "-"} THEN SubSeq(field, 2, Len(field)) ELSE field
       IN  body # <<>> /\ \A i \in 1..Len(body) : body[i] \in Digits

\* the items of a comma-separated list, empty items included
Items(field) ==
    LET cuts == Cuts(field, {","})
    IN  { SubSeq(field, a + 1, b - 1) :
            <<a, b>> \in { x \in cuts \X cuts :
                             x[1] < x[2] /\ \A k \in cuts : ~(x[1] < k /\ k < x[2]) } }

\* a field is '*', an integer equal to the component, or a comma-separated
\* list of integers containing it
FieldAccepts(field, component) ==
    \/ field = Star
    \/ Spells(field, component)
    \/ /\ \E i \in 1..Len(field) : field[i] = ","
       /\ \A item \in Items(field) : IsNumeral(item)
       /\ \E item \in Items(field) : Spells(item, component)

\* the components of a time, day of week with 0 = Sunday
Components(t) ==
    LET d == DateOf(t)
    IN  <<d.minute, d.hour, d.day, d.month, IF d.isoweekday = 7 THEN 0 ELSE d.isoweekday>>

\* C16: the matcher answers true exactly when the expression has five
\* whitespace-separated fields and each is '*', an integer equal to the
\* component of the time it stands for (minute, hour, day of month, month,
\* day of week with 0 = Sunday), or a comma-separated list of integers
\* holding it; a field with a range or a step makes the answer false; and
\* '0 7 * * *' is answered true at 07:00 of every day and at no other minute.
CronMatcherMeaning ==
    matcher.result # None =>
        LET fields == FieldsOf(matcher.cron_expr)
            d == DateOf(now)
        IN  /\ matcher.result[1]
                  <=> /\ Len(fields) = 5
                      /\ \A k \in 1..5 : FieldAccepts(fields[k], Components(now)[k])
            /\ (\E k \in 1..Len(fields) :
                    \E i \in 1..Len(fields[k]) : fields[k][i] \in {"-", "/"})
                  => ~matcher.result[1]
            /\ matcher.cron_expr = SevenOClock =>
                  (matcher.result[1] <=> (d.hour = 7 /\ d.minute = 0))

\* '0 7 * * *' was answered true at 07:00:30 on a Sunday
CronMatcherWitness ==
    /\ matcher.cron_expr = SevenOClock
    /\ now = 86400 * 6 + 25230
    /\ matcher.result = Some(TRUE)

----------------------------------------------------------------------------
(* Scheduler *)

MAX_RUNS_PER_HOUR == 30

\* asyncio.sleep(60)
PollInterval == 60

\* poll cycles explored
MaxCycles == 3

\* most tasks still in flight when the scheduler wakes up
MaxInFlight == 1

EveryMinute == <<"*", " ", "*", " ", "*", " ", "*", " ", "*">>
MinuteOne == <<"1", " ", "*", " ", "*", " ", "*", " ", "*">>
TwiceAnHour == <<"0", ",", "2", "8", " ", "*", " ", "*", " ", "*", " ", "*">>
TopOfHour == <<"0", " ", "*", " ", "*", " ", "*", " ", "*">>

Prompt == <<"g", "o">>

ScheduledAction(cron, enabled) ==
    [cron_expression |-> cron, prompt |-> Prompt, enabled |-> enabled]

\* ScheduledRun(action_id=...) with the defaults of the model class
ScheduledRun(action_id, started_at) ==
    [ action_id |-> action_id,
      started_at |-> started_at,
      finished_at |-> None,
      status |-> "running",
      result |-> <<>>,
      error |-> None ]

LongText == [i \in 1..5003 |-> "x"]
LongError == [i \in 1..1002 |-> "e"]

\* a provider that answers at once, and the table it is explored with: an
\* action due every minute, one due at minutes 0 and 28, one disabled
BurstStubs == { <<Content(<<TextPart(Hello)>>)>> }
BurstActions ==
    (1 :> ScheduledAction(EveryMinute, TRUE))
        @@ (2 :> ScheduledAction(TwiceAnHour, TRUE))
        @@ (3 :> ScheduledAction(EveryMinute, FALSE))

\* an action due at minute 0 and one due at minute 1, explored with a wider
\* choice of providers
FewStubs ==
    { <<Content(<<TextPart(Hello)>>)>>,
      <<Content(<<TextPart(LongText)>>)>>,
      <<Failure(ProviderError)>>,
      <<Failure(LongError)>>,
      <<Content(<<CallPart(NoSuchTool, PathPresent)>>)>>,
      <<Content(<<CallPart(ReadFile, PathMissing)>>), Content(<<TextPart(Hello)>>)>> }
FewActions ==
    (1 :> ScheduledAction(MinuteOne, TRUE)) @@ (2 :> ScheduledAction(TopOfHour, TRUE))

\* a finished row of the store
FinishedRow(action_id, t) ==
    [ action_id |-> action_id,
      started_at |-> t,
      finished_at |-> Some(t),
      status |-> "success",
      result |-> Hello,
      error |-> None ]

\* the store BurstActions leaves when the scheduler ran from 00:00 to 00:27:
\* both actions at minute 0, then action 1 in each of the minutes 1..27
RowsAt0028 ==
    [id \in 1..29 |->
        FinishedRow(IF id = 2 THEN 2 ELSE 1, IF id <= 2 THEN 0 ELSE 60 * (id - 2))]

\* the store BurstActions leaves when the scheduler ran from 00:29 to 00:58:
\* action 1 in each of these thirty minutes
RowsAt0059 == [id \in 1..30 |-> FinishedRow(1, 60 * (28 + id))]

\* clock values at which the scheduler is started over a store with rows
BurstStarts == { [now |-> 1680, records |-> RowsAt0028],
                 [now |-> 3540, records |-> RowsAt0059] }

\* clock values at which the scheduler is started over an empty store
FewStartTimes == {0, 3540}

MaxOf(S) == CHOOSE x \in S : \A y \in S : y <= x

\* the id the store gives a new row: one more than the largest id in the
\* table (SQLite rowid of an INTEGER PRIMARY KEY column)
NewId(table) == IF DOMAIN table = {} THEN 1 ELSE MaxOf(DOMAIN table) + 1

Without(f, k) == [x \in DOMAIN f \ {k} |-> f[x]]

\* _count_recent_runs: rows started at or after the start of the clock hour
_count_recent_runs(t) ==
    LET cutoff == t - (t % 3600)
    IN  Cardinality({id \in DOMAIN records : records[id].started_at >= cutoff})

Spawned == {t \in DOMAIN tasks : tasks[t].pc = "spawned"}

\* the awaits at which a draining task can be suspended: the system prompt
\* builder (line 118) and a tool execution (line 197); everything between
\* two of them, the provider call included, runs without yielding the loop
Suspended(t) ==
    IF tasks[t].pc \in {"spawned", "crashed"} THEN TRUE
    ELSE IF runs[t].pc = "START" THEN TRUE
    ELSE runs[t].pc = "EXECUTING_TOOLS" /\ runs[t].phase = "running"

\* the event loop runs one task at a time: a step of anything but u is
\* possible only when no other task is in the middle of a turn
OthersSuspended(u) == \A t \in DOMAIN tasks \ {u} : Suspended(t)
AllSuspended == \A t \in DOMAIN tasks : Suspended(t)

\* tasks that have not ended
InFlight == {t \in DOMAIN tasks : tasks[t].pc # "crashed"}

RECURSIVE SpawnAll(_, _, _)
\* asyncio.create_task for each matching action, in table order
SpawnAll(ids, table, next) ==
    IF ids = {} THEN table
    ELSE LET a == CHOOSE x \in ids : \A y \in ids : x <= y
         IN  SpawnAll(ids \ {a},
                      (next :> [pc |-> "spawned", action_id |-> a,
                                prompt |-> actions[a].prompt, run_id |-> 0]) @@ table,
                      next + 1)

\* Poll without the rate-limit test
Poll_Unlimited ==
    /\ sched.pc = "poll"
    /\ AllSuspended
    /\ LET enabled == {a \in DOMAIN actions : actions[a].enabled}
           due == {a \in enabled : _cron_matches_now(actions[a].cron_expression, now)}
           n == Cardinality(due)
       IN  /\ tasks' = SpawnAll(due, tasks, sched.next_task)
           /\ sched' = [sched EXCEPT !.pc = "sleep", !.wake = now + PollInterval,
                                     !.last = "evaluated", !.evaluated = enabled,
                                     !.batch = sched.next_task..(sched.next_task + n - 1),
                                     !.next_task = @ + n,
                                     !.cycles = @ + 1]
    /\ UNCHANGED <<provider, runs, now, actions, records, requests, aside>>

\* lines 118-148: one cycle of scheduler_loop, up to its sleep
Poll ==
    /\ sched.pc = "poll"
    /\ AllSuspended
    /\ IF _count_recent_runs(now) >= MAX_RUNS_PER_HOUR
       THEN /\ sched' = [sched EXCEPT !.pc = "sleep", !.wake = now + PollInterval,
                                      !.last = "skipped", !.evaluated = {}, !.batch = {},
                                      !.cycles = @ + 1]
            /\ UNCHANGED tasks
       ELSE LET enabled == {a \in DOMAIN actions : actions[a].enabled}
                due == {a \in enabled : _cron_matches_now(actions[a].cron_expression, now)}
                n == Cardinality(due)
            IN  /\ tasks' = SpawnAll(due, tasks, sched.next_task)
                /\ sched' = [sched EXCEPT !.pc = "sleep", !.wake = now + PollInterval,
                                          !.last = "evaluated", !.evaluated = enabled,
                                          !.batch = sched.next_task..(sched.next_task + n - 1),
                                          !.next_task = @ + n,
                                          !.cycles = @ + 1]
    /\ UNCHANGED <<provider, runs, now, actions, records, requests, aside>>

\* the sleep ends; tasks created before it have had their first turn
Wake ==
    /\ sched.pc = "sleep"
    /\ AllSuspended
    /\ Spawned = {}
    /\ Cardinality(InFlight) <= MaxInFlight
    /\ sched.cycles < MaxCycles
    /\ now' = sched.wake
    /\ sched' = [sched EXCEPT !.pc = "poll"]
    /\ UNCHANGED <<provider, runs, actions, records, tasks, requests, aside>>

\* lines 64-76: the first turn of _execute_scheduled_action: the run record,
\* the agent, the messages and the generator; when Agent() raises at line
\* 71, outside the try, the task ends there with that exception
StartTask ==
    /\ Spawned # {}
    /\ AllSuspended
    /\ LET t == CHOOSE x \in Spawned : \A y \in Spawned : x <= y
           run_id == NewId(records)
       IN  /\ records' = (run_id :> ScheduledRun(tasks[t].action_id, now)) @@ records
           /\ IF env.gemini_api_key
              THEN /\ tasks' = [tasks EXCEPT ![t].pc = "draining", ![t].run_id = run_id]
                   /\ runs' = (t :> NewRun(<<Message("user", <<TextPart(tasks[t].prompt)>>)>>))
                                 @@ runs
              ELSE /\ tasks' = [tasks EXCEPT ![t].pc = "crashed", ![t].run_id = run_id]
                   /\ UNCHANGED runs
    /\ UNCHANGED <<provider, now, sched, actions, requests, aside>>

\* lines 75-77: the task advances the generator
Drain(t) ==
    /\ tasks[t].pc = "draining"
    /\ OthersSuspended(t)
    /\ AgentStep(t)

\* lines 79-99: the generator is exhausted or has raised; the record, if it
\* is still there, gets its final status
FinishTask(t) ==
    /\ tasks[t].pc = "draining"
    /\ runs[t].pc \in {"DONE", "EXHAUSTED", "RAISED"}
    /\ LET run_id == tasks[t].run_id
           full_response == Concat(runs[t].out)
       IN  IF run_id \notin DOMAIN records
           THEN UNCHANGED records
           ELSE IF runs[t].pc = "RAISED"
           THEN records' = [records EXCEPT ![run_id].status = "failed",
                                           ![run_id].error = Some(Take(runs[t].exc, 1000)),
                                           ![run_id].finished_at = Some(now)]
           ELSE records' = [records EXCEPT ![run_id].status = "success",
                                           ![run_id].result = Take(full_response, 5000),
                                           ![run_id].finished_at = Some(now)]
    /\ tasks' = Without(tasks, t)
    /\ runs' = Without(runs, t)
    /\ UNCHANGED <<provider, now, sched, actions, requests, aside>>

\* schedules.py delete_schedule: the action and the runs recorded for it
delete_schedule(a) ==
    /\ requests > 0
    /\ a \in DOMAIN actions
    /\ AllSuspended
    /\ Spawned = {} \/ Spawned = sched.batch
    /\ records' = [id \in {i \in DOMAIN records : records[i].action_id # a} |-> records[id]]
    /\ actions' = Without(actions, a)
    /\ requests' = requests - 1
    /\ UNCHANGED <<provider, runs, now, sched, tasks, aside>>

InitSched ==
    /\ \/ /\ provider \in BurstStubs
          /\ actions = BurstActions
          /\ requests = 0
          /\ \E st \in BurstStarts : now = st.now /\ records = st.records
       \/ /\ provider \in FewStubs
          /\ actions = FewActions
          /\ requests = 1
          /\ now \in FewStartTimes
          /\ records = <<>>
    /\ sched = [pc |-> "poll", wake |-> 0, last |-> "none", evaluated |-> {}, batch |-> {}, next_task |-> 1, cycles |-> 0]
    /\ runs = <<>>
    /\ tasks = <<>>
    /\ env \in {NoToken, NoKey}
    /\ Unused

NextSched ==
    \/ Poll
    \/ Wake
    \/ StartTask
    \/ \E t \in DOMAIN tasks : Drain(t)
    \/ \E t \in DOMAIN tasks : FinishTask(t)
    \/ \E a \in DOMAIN actions : delete_schedule(a)

SpecSched == InitSched /\ [][NextSched]_vars

----------------------------------------------------------------------------
(* Scheduler whose poll cycles take time *)

\* most seconds between a cycle's reading of the clock at line 120 and the
\* start of its sleep: the awaited weekly summary, the store reads
MaxWork == 1

DriftActions ==
    (1 :> ScheduledAction(EveryMinute, TRUE)) @@ (2 :> ScheduledAction(MinuteOne, TRUE))

\* the scheduler is started at 00:00:00 or at 00:00:59
DriftStartTimes == {0, 59}

\* lines 120-148: asyncio.sleep(60) starts when the cycle's work is done, so
\* the next cycle reads the clock 60 seconds and w after this one did
WakeAfterWork(w) ==
    /\ sched.pc = "sleep"
    /\ AllSuspended
    /\ Spawned = {}
    /\ Cardinality(InFlight) <= MaxInFlight
    /\ sched.cycles < MaxCycles
    /\ now' = sched.wake + w
    /\ sched' = [sched EXCEPT !.pc = "poll"]
    /\ UNCHANGED <<provider, runs, actions, records, tasks, requests, aside>>

InitDrift ==
    /\ provider \in FewStubs
    /\ actions = DriftActions
    /\ requests = 0
    /\ now \in DriftStartTimes
    /\ records = <<>>
    /\ sched = [pc |-> "poll", wake |-> 0, last |-> "none", evaluated |-> {}, batch |-> {}, next_task |-> 1, cycles |-> 0]
    /\ runs = <<>>
    /\ tasks = <<>>
    /\ env = NoToken
    /\ Unused

NextDrift ==
    \/ Poll
    \/ \E w \in 0..MaxWork : WakeAfterWork(w)
    \/ StartTask
    \/ \E t \in DOMAIN tasks : Drain(t)
    \/ \E t \in DOMAIN tasks : FinishTask(t)

SpecDrift == InitDrift /\ [][NextDrift]_vars

----------------------------------------------------------------------------
(* Properties of the scheduler *)

\* rows whose start time falls in the clock hour of row id
SameHour(id) ==
    {j \in DOMAIN records :
        records[j].started_at \div 3600 = records[id].started_at \div 3600}

\* C8: the number of run records started within one clock hour never exceeds
\* MAX_RUNS_PER_HOUR.
RateLimitRespected ==
    \A id \in DOMAIN records : Cardinality(SameHour(id)) <= MAX_RUNS_PER_HOUR

\* the scheduler goes from its poll to its sleep
PollStep == sched.pc = "poll" /\ sched'.pc = "sleep"

\* C9: a cycle that finds the limit reached evaluates no trigger, creates no
\* task and no run record, and sleeps one polling interval; nothing is
\* started while it sleeps, and the next poll happens when the sleep ends.
RateLimitedCycleSkips ==
    [][/\ (PollStep /\ _count_recent_runs(now) >= MAX_RUNS_PER_HOUR) =>
              /\ sched'.last = "skipped"
              /\ sched'.evaluated = {}
              /\ tasks' = tasks
              /\ runs' = runs
              /\ records' = records
              /\ sched'.wake = now + PollInterval
       /\ (sched.pc = "sleep" /\ sched.last = "skipped") =>
              /\ DOMAIN tasks' \subseteq DOMAIN tasks
              /\ DOMAIN records' \subseteq DOMAIN records
              /\ sched'.pc = "poll" => (now' = sched.wake /\ sched'.last = "skipped")
       /\ (PollStep /\ sched.last = "skipped") =>
              (sched'.last = "skipped" <=> _count_recent_runs(now) >= MAX_RUNS_PER_HOUR)]_vars

\* the scheduler is back at its poll after a cycle it skipped, with enabled
\* actions due
RateLimitedCycleWitness ==
    /\ sched.pc = "poll"
    /\ sched.last = "skipped"
    /\ _count_recent_runs(now) >= MAX_RUNS_PER_HOUR
    /\ \E a \in DOMAIN actions :
          actions[a].enabled /\ _cron_matches_now(actions[a].cron_expression, now)

\* a task takes its first turn
StartStep(t) == t \in Spawned /\ t \notin Spawned'

\* a task ends
FinishStep(t) == t \in DOMAIN tasks /\ t \notin DOMAIN tasks'

\* C10: a task's first turn creates exactly one record, 'running'; at the
\* task's end its record is 'success' with the first 5000 characters of the
\* concatenated chunks when the run did not raise, 'failed' with the first
\* 1000 characters of the error text when it raised; finished_at is set
\* exactly on the records that left 'running'; a record that left 'running'
\* keeps its status.
RunRecordLifecycle ==
    /\ [][\A t \in DOMAIN tasks :
            /\ StartStep(t) =>
                  \E id \in DOMAIN records' \ DOMAIN records :
                      /\ DOMAIN records' = DOMAIN records \cup {id}
                      /\ \A j \in DOMAIN records : records'[j] = records[j]
                      /\ records'[id].status = "running"
                      /\ records'[id].action_id = tasks[t].action_id
                      /\ tasks'[t].run_id = id
            /\ (FinishStep(t) /\ tasks[t].run_id \in DOMAIN records) =>
                  LET new == records'[tasks[t].run_id]
                  IN  IF runs[t].pc = "RAISED"
                      THEN /\ new.status = "failed"
                           /\ new.error = Some(Take(runs[t].exc, 1000))
                      ELSE /\ new.status = "success"
                           /\ new.result = Take(Concat(runs[t].out), 5000)]_vars
    /\ [](\A id \in DOMAIN records :
            records[id].status = "running" <=> records[id].finished_at = None)
    /\ [][\A id \in DOMAIN records \cap DOMAIN records' :
            records[id].status # "running" =>
                /\ records'[id].status = records[id].status
                /\ records'[id].finished_at = records[id].finished_at]_vars

\* C24: every run record reaches 'success' or 'failed', also when
\* constructing the agent raises: a record is 'running' only as long as the
\* task that created it has not ended.
RunRecordsAreFinalised ==
    \A id \in DOMAIN records :
        records[id].status = "running" =>
            \E t \in DOMAIN tasks : tasks[t].pc = "draining" /\ tasks[t].run_id = id

\* the clock minute a time falls in
ClockMinute(t) == t \div 60

\* the run records of action a started in clock minute m
Triggers(a, m) ==
    {id \in DOMAIN records :
        records[id].action_id = a /\ ClockMinute(records[id].started_at) = m}

\* the clock minutes from the scheduler's first cycle to its latest one
PolledSpan ==
    LET starts == {records[id].started_at : id \in DOMAIN records}
        first == CHOOSE x \in starts : \A y \in starts : x <= y
    IN  ClockMinute(first)..ClockMinute(now)

\* the cycle has been evaluated and the tasks it spawned have started
CycleDone ==
    /\ sched.pc = "sleep"
    /\ Spawned = {}
    /\ records # <<>>
    /\ _count_recent_runs(now) < MAX_RUNS_PER_HOUR

NoMinuteFiredTwice ==
    CycleDone =>
        \A a \in DOMAIN actions : \A m \in PolledSpan :
            Cardinality(Triggers(a, m)) <= 1

NoMatchingMinuteSkipped ==
    CycleDone =>
        \A a \in DOMAIN actions : \A m \in PolledSpan :
            (actions[a].enabled /\ _cron_matches_now(actions[a].cron_expression, m * 60))
                => Triggers(a, m) # {}

\* C26: while the scheduler runs below the rate limit, an enabled action is
\* triggered exactly once for each clock minute its cron expression matches,
\* whatever time the poll cycles' own work takes: none fired twice, none
\* skipped.
EachMatchingMinuteOnce == NoMinuteFiredTwice /\ NoMatchingMinuteSkipped

\* C19: while the run of one task is in its provider call, every other task
\* whose run has not ended can take its next step, and so can the scheduler
\* when its sleep is over.
ProviderCallIsSuspensionPoint ==
    \A t \in DOMAIN tasks :
        (tasks[t].pc = "draining" /\ runs[t].pc = "AWAITING_MODEL") =>
            /\ \A u \in DOMAIN tasks \ {t} :
                  (tasks[u].pc = "draining" /\ runs[u].pc \notin Terminal)
                      => ENABLED Drain(u)
            /\ (/\ sched.pc = "sleep"
                /\ Spawned = {}
                /\ Cardinality(InFlight) <= MaxInFlight
                /\ sched.cycles < MaxCycles)
                  => ENABLED Wake

----------------------------------------------------------------------------
(* Chat transport *)

\* user frames a client sends on one connection
MaxTurns == 2

\* connections accepted by chat_websocket
Connections == {1}

\* what the chat transport never touches
offline == <<provider, now, sched, actions, records, tasks, requests, env, registry, matcher,
             reply>>

\* a frame that is not JSON: json.loads raises JSONDecodeError
TextFrame(t) ==
    [kind |-> "text", raw |-> t, content |-> None, conversation_id |-> None]

\* a frame holding a JSON object with a content and, when cid is not None, a
\* conversation_id
ObjectFrame(t, cid) ==
    [kind |-> "object", raw |-> <<"{">> \o t \o <<"}">>, content |-> Some(t),
     conversation_id |-> cid]

\* a frame holding JSON that is not an object: data.get raises AttributeError
ScalarFrame ==
    [kind |-> "scalar", raw |-> <<"5">>, content |-> None, conversation_id |-> None]

Frames == {TextFrame(Hello), ObjectFrame(Hello, None), ObjectFrame(Hello, Some(1)), ScalarFrame}

AttributeError == <<"n", "o", " ", "g", "e", "t">>
ConnectionClosed == <<"c", "l", "o", "s", "e", "d">>

\* frames the server sends
TokenFrame(token) == [type |-> "text", data |-> token, conversation_id |-> 0]
EndFrame(cid) == [type |-> "end", data |-> <<>>, conversation_id |-> cid]

\* rows of the two tables
Conversation(title, t) == [title |-> title, created_at |-> t, updated_at |-> t]
ChatMessage(cid, role, content, t) ==
    [conversation_id |-> cid, role |-> role, content |-> content, created_at |-> t]

\* lines 16-19: the handler after accept
NewConnection ==
    [ pc |-> "receive",
      connected |-> TRUE,             \* the client's end is open
      inbox |-> <<>>,                 \* frames sent by the client, not yet received
      sent |-> 0,                     \* frames the client has sent
      turn |-> 0,                     \* turns started
      conversation_id |-> None,
      gemini_messages |-> <<>>,
      full_response |-> <<>>,
      forwarded |-> 0,                \* chunks of the run taken by the async for
      delivered |-> <<>>,             \* frames that reached the client
      error |-> None,                 \* the exception that ended the handler
      left |-> None ]                 \* where the run was when the client left

RECURSIVE ByCreation(_, _)
\* sorted(conv.messages, key=created_at): a stable sort of the rows in id order
ByCreation(ids, acc) ==
    IF ids = {} THEN acc
    ELSE LET m == CHOOSE x \in ids : \A y \in ids :
                    \/ chatmessage[x].created_at < chatmessage[y].created_at
                    \/ chatmessage[x].created_at = chatmessage[y].created_at /\ x <= y
         IN  ByCreation(ids \ {m}, Append(acc, m))

\* lines 90-100
_load_conversation_as_gemini(cid) ==
    IF cid \notin DOMAIN conversation THEN <<>>
    ELSE LET ids == ByCreation({m \in DOMAIN chatmessage :
                                   chatmessage[m].conversation_id = cid}, <<>>)
         IN  [i \in 1..Len(ids) |->
                Message(IF chatmessage[ids[i]].role = "assistant" THEN "model" ELSE "user",
                        <<TextPart(chatmessage[ids[i]].content)>>)]

\* lines 74-78
_save_message(cid, role, content) ==
    (NewId(chatmessage) :> ChatMessage(cid, role, content, now)) @@ chatmessage

\* lines 81-87
_touch_conversation(cid) ==
    IF cid \in DOMAIN conversation
    THEN [conversation EXCEPT ![cid].updated_at = now]
    ELSE conversation

\* what a send does: it reaches a connected client; after the client has
\* left it is lost unnoticed, or raises WebSocketDisconnect, or raises the
\* server's own connection error
SendOutcomes(c) ==
    IF chat[c].connected THEN {"sent"} ELSE {"lost", "disconnect", "error"}

\* the handler after a send with the given outcome
AfterSend(h, outcome, frame, pc) ==
    CASE outcome = "sent" -> [h EXCEPT !.delivered = Append(@, frame), !.pc = pc]
      [] outcome = "lost" -> [h EXCEPT !.pc = pc]
      [] outcome = "disconnect" -> [h EXCEPT !.pc = "closed"]
      [] outcome = "error" -> [h EXCEPT !.pc = "crashed", !.error = Some(ConnectionClosed)]

\* the client sends a frame
ClientSend(c, frame) ==
    /\ chat[c].connected
    /\ chat[c].pc \notin {"closed", "crashed"}
    /\ chat[c].sent < MaxTurns
    /\ chat' = [chat EXCEPT ![c].inbox = Append(@, frame), ![c].sent = @ + 1]
    /\ UNCHANGED <<runs, conversation, chatmessage, offline>>

\* the client closes the connection
ClientDisconnect(c) ==
    /\ chat[c].connected
    /\ chat[c].pc \notin {"closed", "crashed"}
    /\ chat' = [chat EXCEPT
                  ![c].connected = FALSE,
                  ![c].left = IF chat[c].pc = "running"
                              THEN Some([turn |-> chat[c].turn, calls |-> runs[c].calls,
                                         pc |-> runs[c].pc, phase |-> runs[c].phase])
                              ELSE None]
    /\ UNCHANGED <<runs, conversation, chatmessage, offline>>

\* lines 23-47: a frame is received, the user message is saved and the run
\* of the turn is created
Receive(c) ==
    /\ chat[c].pc = "receive"
    /\ chat[c].inbox # <<>>
    /\ LET frame == Head(chat[c].inbox)
           user_text == IF frame.content # None THEN frame.content[1] ELSE frame.raw
           switch == /\ frame.conversation_id # None
                     /\ frame.conversation_id # chat[c].conversation_id
           bound == IF switch THEN frame.conversation_id ELSE chat[c].conversation_id
           loaded == IF switch THEN _load_conversation_as_gemini(bound[1])
                     ELSE chat[c].gemini_messages
           cid == IF bound = None THEN NewId(conversation) ELSE bound[1]
           history == Append(loaded, Message("user", <<TextPart(user_text)>>))
       IN  IF frame.kind = "scalar"
           THEN /\ chat' = [chat EXCEPT ![c].inbox = Tail(@), ![c].pc = "crashed",
                                        ![c].error = Some(AttributeError)]
                /\ UNCHANGED <<runs, conversation, chatmessage>>
           ELSE /\ conversation' = IF bound = None
                                   THEN (cid :> Conversation(Take(user_text, 80), now))
                                        @@ conversation
                                   ELSE conversation
                /\ chatmessage' = _save_message(cid, "user", user_text)
                /\ chat' = [chat EXCEPT ![c].inbox = Tail(@),
                                        ![c].pc = "running",
                                        ![c].turn = @ + 1,
                                        ![c].conversation_id = Some(cid),
                                        ![c].gemini_messages = history,
                                        ![c].full_response = <<>>,
                                        ![c].forwarded = 0]
                /\ runs' = (c :> NewRun(history)) @@ runs
    /\ UNCHANGED offline

\* line 23 when the client has left and nothing is queued: receive_text
\* raises WebSocketDisconnect, which line 61 catches
Hangup(c) ==
    /\ chat[c].pc = "receive"
    /\ chat[c].inbox = <<>>
    /\ ~chat[c].connected
    /\ chat' = [chat EXCEPT ![c].pc = "closed"]
    /\ UNCHANGED <<runs, conversation, chatmessage, offline>>

\* Advance with the generator driven on its own, whatever the handler has
\* done with the chunks
Advance_RunsAhead(c) ==
    /\ c \in DOMAIN runs
    /\ AgentStep(c)

\* line 47: the async for asks the generator for its next chunk
Advance(c) ==
    /\ chat[c].pc = "running"
    /\ chat[c].forwarded = Len(runs[c].out)
    /\ AgentStep(c)

\* Forward keeping the progress markers out of the response
Forward_SkipsMarkers(c) ==
    /\ chat[c].pc = "running"
    /\ chat[c].forwarded < Len(runs[c].out)
    /\ LET token == runs[c].out[chat[c].forwarded + 1]
       IN  \E outcome \in SendOutcomes(c) :
              chat' = [chat EXCEPT
                         ![c] = AfterSend(
                                   IF outcome \in {"sent", "lost"}
                                   THEN [@ EXCEPT !.forwarded = @ + 1,
                                                  !.full_response =
                                                      IF IsPrefix(UsingToolPrefix, token)
                                                      THEN @ ELSE @ \o token]
                                   ELSE @,
                                   outcome, TokenFrame(token), "running")]
    /\ UNCHANGED <<runs, conversation, chatmessage, offline>>

\* lines 48-49: a chunk is sent and added to the response
Forward(c) ==
    /\ chat[c].pc = "running"
    /\ chat[c].forwarded < Len(runs[c].out)
    /\ LET token == runs[c].out[chat[c].forwarded + 1]
       IN  \E outcome \in SendOutcomes(c) :
              chat' = [chat EXCEPT
                         ![c] = AfterSend(
                                   IF outcome \in {"sent", "lost"}
                                   THEN [@ EXCEPT !.forwarded = @ + 1,
                                                  !.full_response = @ \o token]
                                   ELSE @,
                                   outcome, TokenFrame(token), "running")]
    /\ UNCHANGED <<runs, conversation, chatmessage, offline>>

\* line 47 when the generator raises: only WebSocketDisconnect is caught at
\* line 61, the provider's error leaves the handler
Unwind(c) ==
    /\ chat[c].pc = "running"
    /\ runs[c].pc = "RAISED"
    /\ chat' = [chat EXCEPT ![c].pc = "crashed", ![c].error = Some(runs[c].exc)]
    /\ UNCHANGED <<runs, conversation, chatmessage, offline>>

\* lines 51-59: the generator is exhausted; the assistant message is saved
\* and the end marker sent
FinishTurn(c) ==
    /\ chat[c].pc = "running"
    /\ runs[c].pc \in {"DONE", "EXHAUSTED"}
    /\ chat[c].forwarded = Len(runs[c].out)
    /\ LET cid == chat[c].conversation_id[1]
           full_response == chat[c].full_response
       IN  /\ chatmessage' = _save_message(cid, "assistant", full_response)
           /\ conversation' = _touch_conversation(cid)
           /\ \E outcome \in SendOutcomes(c) :
                 chat' = [chat EXCEPT
                            ![c] = AfterSend(
                                      [@ EXCEPT !.gemini_messages =
                                           Append(@, Message("model", <<TextPart(full_response)>>))],
                                      outcome, EndFrame(cid), "receive")]
    /\ UNCHANGED <<runs, offline>>

\* the stubs behind the chat agent
ChatStubs ==
    { <<Content(<<TextPart(Hello)>>)>>,
      <<Content(<<>>)>>,
      <<Failure(ProviderError)>>,
      <<Content(<<CallPart(ReadFile, PathPresent)>>), Content(<<TextPart(Hello)>>)>>,
      <<Content(<<CallPart(ReadFile, PathMissing), CallPart(ReadFile, PathPresent)>>),
        Content(<<TextPart(Hello)>>)>>,
      <<Content(<<CallPart(ReadFile, PathPresent)>>), Failure(ProviderError)>>,
      <<Content(<<CallPart(NoSuchTool, PathPresent)>>)>> }

InitChat ==
    /\ provider \in ChatStubs
    /\ runs = <<>>
    /\ now = 0
    /\ sched = [pc |-> "stopped", wake |-> 0, last |-> "none", evaluated |-> {}, batch |-> {}, next_task |-> 1, cycles |-> 0]
    /\ actions = <<>>
    /\ records = <<>>
    /\ tasks = <<>>
    /\ requests = 0
    /\ env = NoToken
    /\ registry = <<>>
    /\ matcher = <<>>
    /\ chat = [c \in Connections |-> NewConnection]
    /\ conversation = <<>>
    /\ chatmessage = <<>>
    /\ reply = <<>>

NextChat ==
    \/ \E c \in Connections, frame \in Frames : ClientSend(c, frame)
    \/ \E c \in Connections : ClientDisconnect(c)
    \/ \E c \in Connections : Receive(c)
    \/ \E c \in Connections : Hangup(c)
    \/ \E c \in Connections : Advance(c)
    \/ \E c \in Connections : Forward(c)
    \/ \E c \in Connections : Unwind(c)
    \/ \E c \in Connections : FinishTurn(c)

SpecChat == InitChat /\ [][NextChat]_vars

----------------------------------------------------------------------------
(* Properties of the chat transport *)

\* C12: a chat handler is never ended by the error of a provider call: the
\* transport catches it, so the handler stays able to receive the next frame.
ProviderErrorCaughtByChat ==
    \A c \in DOMAIN chat :
        (c \in DOMAIN runs /\ runs[c].pc = "RAISED") =>
            ~(chat[c].pc = "crashed" /\ chat[c].error = Some(runs[c].exc))

\* C18: when the client leaves while the run of a turn is in its provider
\* call or in a tool execution, that run makes no provider call after the
\* one that was going on.
NoProviderCallAfterDisconnect ==
    \A c \in DOMAIN chat :
        (/\ chat[c].left # None
         /\ chat[c].turn = chat[c].left[1].turn
         /\ \/ chat[c].left[1].pc = "AWAITING_MODEL"
            \/ chat[c].left[1].pc = "EXECUTING_TOOLS" /\ chat[c].left[1].phase = "running")
            => runs[c].calls <= chat[c].left[1].calls
                                  + (IF chat[c].left[1].pc = "AWAITING_MODEL" THEN 1 ELSE 0)

\* rows added to table chatmessage by a step
NewMessages == DOMAIN chatmessage' \ DOMAIN chatmessage

\* the text of a user frame: its content, or the frame itself
UserText(frame) == IF frame.content # None THEN frame.content[1] ELSE frame.raw

\* C20: a turn stores two messages under its conversation and no other: when
\* the turn starts, one 'user' message holding the user's text; when the run
\* has ended without raising and its last chunk is sent, one 'assistant'
\* message, stored right after it, holding the concatenation of every chunk
\* the run yielded, markers and exhaustion notice included.
TurnPersistsTwoMessages ==
    [][\A c \in DOMAIN chat :
          LET starts == chat'[c].turn = chat[c].turn + 1
              completes == /\ chat[c].pc = "running"
                           /\ chat'[c].pc # "running"
                           /\ runs[c].pc \in {"DONE", "EXHAUSTED"}
                           /\ chat[c].forwarded = Len(runs[c].out)
          IN  /\ starts =>
                    \E m \in NewMessages :
                        /\ NewMessages = {m}
                        /\ \A k \in DOMAIN chatmessage : k < m /\ chatmessage'[k] = chatmessage[k]
                        /\ chatmessage'[m].role = "user"
                        /\ chatmessage'[m].content = UserText(Head(chat[c].inbox))
                        /\ chatmessage'[m].conversation_id = chat'[c].conversation_id[1]
              /\ completes =>
                    \E m \in NewMessages :
                        /\ NewMessages = {m}
                        /\ \A k \in DOMAIN chatmessage : chatmessage'[k] = chatmessage[k]
                        /\ chatmessage'[m].role = "assistant"
                        /\ chatmessage'[m].content = Concat(runs[c].out)
                        /\ chatmessage'[m].conversation_id = chat[c].conversation_id[1]
                        /\ m - 1 \in DOMAIN chatmessage
                        /\ chatmessage[m - 1].role = "user"
                        /\ chatmessage[m - 1].conversation_id = chat[c].conversation_id[1]
                        /\ chat[c].gemini_messages[Len(chat[c].gemini_messages)]
                              = Message("user", <<TextPart(chatmessage[m - 1].content)>>)
              /\ (~starts /\ ~completes) => chatmessage' = chatmessage]_vars

\* a stored turn whose assistant message holds a progress marker and the
\* exhaustion notice, right after the user message 'hi'
TurnPersistsWitness ==
    \E m \in DOMAIN chatmessage :
        /\ chatmessage[m].role = "assistant"
        /\ Contains(chatmessage[m].content, ProgressMarker(NoSuchTool))
        /\ Contains(chatmessage[m].content, MaxIterationsNotice)
        /\ m - 1 \in DOMAIN chatmessage
        /\ chatmessage[m - 1] = ChatMessage(chatmessage[m].conversation_id, "user", Hello, now)

\* the frames a client has received since the last end marker
RECURSIVE SinceLastEnd(_)
SinceLastEnd(d) ==
    IF d = <<>> THEN <<>>
    ELSE IF d[Len(d)].type = "end" THEN <<>>
    ELSE Append(SinceLastEnd(SubSeq(d, 1, Len(d) - 1)), d[Len(d)])

\* the end markers a client has received
EndMarkers(d) == {i \in DOMAIN d : d[i].type = "end"}

\* the chunks of a run as text frames
TokenFrames(out) == [i \in DOMAIN out |-> TokenFrame(out[i])]

\* C21: for each user frame, the client receives every chunk of the turn's
\* run, in order, as text frames, and then exactly one end marker carrying the
\* id of the turn's conversation; the end marker never comes before the last
\* chunk.  For a client that stays connected: during a turn the frames
\* received since the last end marker are the chunks taken from the run so
\* far, and once every frame it sent has been handled it holds one end marker
\* per frame, the last one right after the chunks of the last run.
EachFrameStreamsThenEnds ==
    \A c \in DOMAIN chat :
        chat[c].connected =>
            LET d == chat[c].delivered
            IN  /\ chat[c].pc = "running" =>
                      SinceLastEnd(d) = SubSeq(TokenFrames(runs[c].out), 1, chat[c].forwarded)
                /\ Cardinality(EndMarkers(d)) <= chat[c].turn
                /\ (chat[c].pc # "running" /\ chat[c].inbox = <<>> /\ chat[c].sent > 0) =>
                      /\ Cardinality(EndMarkers(d)) = chat[c].sent
                      /\ c \in DOMAIN runs
                      /\ Len(d) > Len(runs[c].out)
                      /\ SubSeq(d, Len(d) - Len(runs[c].out), Len(d)) =
                             Append(TokenFrames(runs[c].out),
                                    EndFrame(chat[c].conversation_id[1]))

\* the part of C21 that does not depend on the turn reaching its end
FramesFollowChunks ==
    \A c \in DOMAIN chat :
        chat[c].connected =>
            LET d == chat[c].delivered
            IN  /\ chat[c].pc = "running" =>
                      SinceLastEnd(d) = SubSeq(TokenFrames(runs[c].out), 1, chat[c].forwarded)
                /\ Cardinality(EndMarkers(d)) <= chat[c].turn
                /\ (chat[c].pc = "receive" /\ chat[c].turn > 0) =>
                      /\ Cardinality(EndMarkers(d)) = chat[c].turn
                      /\ Len(d) > Len(runs[c].out)
                      /\ SubSeq(d, Len(d) - Len(runs[c].out), Len(d)) =
                             Append(TokenFrames(runs[c].out),
                                    EndFrame(chat[c].conversation_id[1]))

\* the send of a chunk failed: the handler ended with a chunk of the run it
\* had not passed on
SendFailed(c) ==
    /\ chat[c].pc \in {"closed", "crashed"}
    /\ c \in DOMAIN runs
    /\ chat[c].forwarded < Len(runs[c].out)

\* C30: a tool of a chat run is executed only after the send of its progress
\* marker has returned; once the send of a chunk has failed because the
\* client has left, the run executes no further tool and makes no further
\* provider call, and no assistant message is stored for the turn.
MarkerDeliveredBeforeTool ==
    /\ [][\A c \in DOMAIN chat :
            IF c \in DOMAIN runs /\ c \in DOMAIN runs'
            THEN /\ Len(runs'[c].executed) > Len(runs[c].executed) =>
                       /\ chat[c].pc = "running"
                       /\ runs[c].out # <<>>
                       /\ chat[c].forwarded = Len(runs[c].out)
                       /\ runs[c].out[Len(runs[c].out)] =
                              ProgressMarker(runs'[c].executed[Len(runs'[c].executed)])
                 /\ SendFailed(c) =>
                       /\ runs'[c] = runs[c]
                       /\ chatmessage' = chatmessage
            ELSE TRUE]_vars
    /\ [](\A c \in DOMAIN chat :
            SendFailed(c) =>
                chatmessage[MaxOf(DOMAIN chatmessage)] =
                    ChatMessage(chat[c].conversation_id[1], "user",
                                chat[c].gemini_messages[Len(chat[c].gemini_messages)].parts[1].text,
                                chatmessage[MaxOf(DOMAIN chatmessage)].created_at))

\* the first of two tools has run, the send of the second tool's marker
\* failed, and the second tool was never started
MarkerDeliveredWitness ==
    \E c \in DOMAIN chat :
        /\ SendFailed(c)
        /\ runs[c].pc = "EXECUTING_TOOLS"
        /\ runs[c].phase = "lookup"
        /\ Len(runs[c].executed) = 1
        /\ chat[c].forwarded = 1
        /\ Len(runs[c].out) = 2

----------------------------------------------------------------------------
(* Conversations API, and chat connections sharing one store *)

\* user frames the clients send, all connections together
MaxFrames == 3

\* ids a client names, in a frame or in a request
ClientIds == {1, 2}

\* frames the clients send: plain text, or text with the id of a conversation
StoreFrames == {TextFrame(Hello)} \cup {ObjectFrame(Hello, Some(id)) : id \in ClientIds}

\* frames the clients of the shared store send: plain text, or text for
\* conversation 1
SharedFrames == {TextFrame(Hello), ObjectFrame(Hello, Some(1))}

\* conversations.py lines 38-42: the messages of a conversation, oldest first
MessagesOf(cid) ==
    ByCreation({m \in DOMAIN chatmessage : chatmessage[m].conversation_id = cid}, <<>>)

\* conversations.py lines 31-58
get_conversation(id) ==
    /\ requests > 0
    /\ requests' = requests - 1
    /\ reply' = Append(reply,
                 IF id \notin DOMAIN conversation
                 THEN [method |-> "GET", id |-> id, status_code |-> 404, messages |-> <<>>]
                 ELSE [method |-> "GET", id |-> id, status_code |-> 200,
                       messages |-> [i \in 1..Len(MessagesOf(id)) |->
                                       [id |-> MessagesOf(id)[i],
                                        role |-> chatmessage[MessagesOf(id)[i]].role,
                                        content |-> chatmessage[MessagesOf(id)[i]].content]]])
    /\ UNCHANGED <<provider, runs, now, sched, actions, records, tasks,
                   env, registry, matcher, chat, conversation, chatmessage>>

\* delete_conversation leaving the messages in the table
delete_conversation_KeepsMessages(id) ==
    /\ requests > 0
    /\ requests' = requests - 1
    /\ IF id \notin DOMAIN conversation
       THEN /\ reply' = Append(reply, [method |-> "DELETE", id |-> id, status_code |-> 404,
                                       messages |-> <<>>])
            /\ UNCHANGED <<conversation, chatmessage>>
       ELSE /\ reply' = Append(reply, [method |-> "DELETE", id |-> id, status_code |-> 200,
                                       messages |-> <<>>])
            /\ UNCHANGED chatmessage
            /\ conversation' = Without(conversation, id)
    /\ UNCHANGED <<provider, runs, now, sched, actions, records, tasks,
                   env, registry, matcher, chat>>

\* conversations.py lines 61-78
delete_conversation(id) ==
    /\ requests > 0
    /\ requests' = requests - 1
    /\ IF id \notin DOMAIN conversation
       THEN /\ reply' = Append(reply, [method |-> "DELETE", id |-> id, status_code |-> 404,
                                       messages |-> <<>>])
            /\ UNCHANGED <<conversation, chatmessage>>
       ELSE /\ reply' = Append(reply, [method |-> "DELETE", id |-> id, status_code |-> 200,
                                       messages |-> <<>>])
            /\ chatmessage' = [m \in {k \in DOMAIN chatmessage :
                                         chatmessage[k].conversation_id # id}
                                  |-> chatmessage[m]]
            /\ conversation' = Without(conversation, id)
    /\ UNCHANGED <<provider, runs, now, sched, actions, records, tasks,
                   env, registry, matcher, chat>>

\* frames sent so far
RECURSIVE TotalSent(_)
TotalSent(cs) ==
    IF cs = {} THEN 0
    ELSE LET c == CHOOSE x \in cs : TRUE IN chat[c].sent + TotalSent(cs \ {c})

\* a client of the shared store sends a frame when it is its turn to speak:
\* nothing of its own is waiting or being answered; the connections are
\* numbered in the order of their first frame
StoreSend(c, frame) ==
    /\ TotalSent(DOMAIN chat) < MaxFrames
    /\ \A b \in DOMAIN chat : b < c => chat[b].sent > 0
    /\ chat[c].pc = "receive"
    /\ chat[c].inbox = <<>>
    /\ ClientSend(c, frame)

\* a conversation stored by an earlier connection: one completed turn
StoredTurn ==
    [ conversation |-> (1 :> Conversation(Hello, 0)),
      chatmessage |-> (1 :> ChatMessage(1, "user", Hello, 0))
                        @@ (2 :> ChatMessage(1, "assistant", Hello, 0)) ]

EmptyStore == [conversation |-> <<>>, chatmessage |-> <<>>]

\* the providers behind the connections of the shared store
StoreStubs == { <<Content(<<TextPart(Hello)>>)>>, <<Failure(ProviderError)>> }

InitStore ==
    /\ provider \in StoreStubs
    /\ runs = <<>>
    /\ now = 0
    /\ sched = [pc |-> "stopped", wake |-> 0, last |-> "none", evaluated |-> {}, batch |-> {}, next_task |-> 1, cycles |-> 0]
    /\ actions = <<>>
    /\ records = <<>>
    /\ tasks = <<>>
    /\ requests = 0
    /\ env = NoToken
    /\ registry = <<>>
    /\ matcher = <<>>
    /\ chat = [c \in {1, 2} |-> NewConnection]
    /\ \E store \in {EmptyStore, StoredTurn} :
          conversation = store.conversation /\ chatmessage = store.chatmessage
    /\ reply = <<>>

NextStore ==
    \/ \E c \in DOMAIN chat, frame \in SharedFrames : StoreSend(c, frame)
    \/ \E c \in DOMAIN chat : ClientDisconnect(c)
    \/ \E c \in DOMAIN chat : Receive(c)
    \/ \E c \in DOMAIN chat : Hangup(c)
    \/ \E c \in DOMAIN chat : Advance(c)
    \/ \E c \in DOMAIN chat : Forward(c)
    \/ \E c \in DOMAIN chat : Unwind(c)
    \/ \E c \in DOMAIN chat : FinishTurn(c)

SpecStore == InitStore /\ [][NextStore]_vars

\* one connection, and an API client sending requests while it is served
MaxRequests == 2

InitApi ==
    /\ provider \in StoreStubs
    /\ runs = <<>>
    /\ now = 0
    /\ sched = [pc |-> "stopped", wake |-> 0, last |-> "none", evaluated |-> {}, batch |-> {}, next_task |-> 1, cycles |-> 0]
    /\ actions = <<>>
    /\ records = <<>>
    /\ tasks = <<>>
    /\ requests = MaxRequests
    /\ env = NoToken
    /\ registry = <<>>
    /\ matcher = <<>>
    /\ chat = [c \in Connections |-> NewConnection]
    /\ \E store \in {EmptyStore, StoredTurn} :
          conversation = store.conversation /\ chatmessage = store.chatmessage
    /\ reply = <<>>

NextApi ==
    \/ \E c \in DOMAIN chat, frame \in StoreFrames : ClientSend(c, frame)
    \/ \E c \in DOMAIN chat : ClientDisconnect(c)
    \/ \E c \in DOMAIN chat : Receive(c)
    \/ \E c \in DOMAIN chat : Hangup(c)
    \/ \E c \in DOMAIN chat : Advance(c)
    \/ \E c \in DOMAIN chat : Forward(c)
    \/ \E c \in DOMAIN chat : Unwind(c)
    \/ \E c \in DOMAIN chat : FinishTurn(c)
    \/ \E id \in ClientIds : get_conversation(id)
    \/ \E id \in ClientIds : delete_conversation(id)

SpecApi == InitApi /\ [][NextApi]_vars

----------------------------------------------------------------------------
(* Properties of the shared store *)

\* the messages stored under a conversation, and those of one role
Stored(cid) == {m \in DOMAIN chatmessage : chatmessage[m].conversation_id = cid}
StoredAs(cid, role) == {m \in Stored(cid) : chatmessage[m].role = role}

\* a step that starts a turn on connection c
TurnStarts(c) == chat'[c].turn = chat[c].turn + 1

\* a step that ends a turn on connection c with its end marker sent or lost
TurnEnds(c) == chat[c].pc = "running" /\ chat'[c].pc = "receive"

\* the conversation a starting turn is stored under: a frame without an id
\* goes to the connection's conversation, the first one creating it; a frame
\* with the id of a stored conversation goes to that conversation, and its
\* run is given the stored history followed by the user's text
TurnsAreBound ==
    [][\A c \in DOMAIN chat :
          TurnStarts(c) =>
              LET frame == Head(chat[c].inbox)
                  carried == frame.conversation_id
                  cid == chat'[c].conversation_id[1]
              IN  /\ \E m \in NewMessages :
                        /\ NewMessages = {m}
                        /\ chatmessage'[m].conversation_id = cid
                  /\ (carried = None /\ chat[c].conversation_id # None) =>
                        /\ chat'[c].conversation_id = chat[c].conversation_id
                        /\ conversation' = conversation
                  /\ (carried = None /\ chat[c].conversation_id = None) =>
                        /\ cid \notin DOMAIN conversation
                        /\ DOMAIN conversation' = DOMAIN conversation \cup {cid}
                  /\ (carried # None /\ carried[1] \in DOMAIN conversation) =>
                        /\ cid = carried[1]
                        /\ conversation' = conversation
                        /\ runs'[c].messages =
                              Append(_load_conversation_as_gemini(cid),
                                     Message("user", <<TextPart(UserText(frame))>>))]_vars

\* the end marker of a turn carries the id the turn was stored under
EndMarkerNamesConversation ==
    [][\A c \in DOMAIN chat :
          TurnEnds(c) =>
              \E m \in NewMessages :
                  /\ chatmessage'[m].conversation_id = chat[c].conversation_id[1]
                  /\ chat[c].connected =>
                        chat'[c].delivered =
                            Append(chat[c].delivered, EndFrame(chat[c].conversation_id[1]))]_vars

\* when a turn of a conversation is completed and no other connection is in
\* the middle of a turn of it, the conversation holds two messages for each
\* of its completed turns
TwoMessagesPerTurn ==
    [][\A c \in DOMAIN chat :
          TurnEnds(c) =>
              LET cid == chat[c].conversation_id[1]
                  stored == {m \in DOMAIN chatmessage' :
                                chatmessage'[m].conversation_id = cid}
                  completed == {m \in stored : chatmessage'[m].role = "assistant"}
              IN  (\A b \in DOMAIN chat \ {c} :
                      ~(chat[b].pc = "running" /\ chat[b].conversation_id = Some(cid)))
                      => Cardinality(stored) = 2 * Cardinality(completed)]_vars

\* C22: the turns of a connection are stored in the conversation created at
\* its first turn; a turn that carries the id of a stored conversation is
\* appended to that conversation with the stored history loaded first; every
\* end marker returns the conversation's id; after n completed turns the
\* conversation holds exactly 2n messages.
TurnsShareOneConversation ==
    /\ TurnsAreBound
    /\ EndMarkerNamesConversation
    /\ TwoMessagesPerTurn

----------------------------------------------------------------------------
(* Properties of the conversations API *)

\* a step in which the API answers a request
Answers == Len(reply') = Len(reply) + 1

\* C23: DELETE of a stored conversation removes it and every message stored
\* under its id, and nothing else; GET or DELETE of an id that is not stored,
\* the id of a conversation just deleted included, is answered 404 and leaves
\* the store as it was; a GET of a stored conversation is answered with its
\* messages and changes nothing.
DeleteRemovesConversation ==
    [][Answers =>
         LET r == reply'[Len(reply')]
         IN  IF r.id \notin DOMAIN conversation
             THEN /\ r.status_code = 404
                  /\ conversation' = conversation
                  /\ chatmessage' = chatmessage
             ELSE /\ r.status_code = 200
                  /\ IF r.method = "DELETE"
                     THEN /\ DOMAIN conversation' = DOMAIN conversation \ {r.id}
                          /\ \A k \in DOMAIN conversation' :
                                conversation'[k] = conversation[k]
                          /\ DOMAIN chatmessage' = DOMAIN chatmessage \ Stored(r.id)
                          /\ \A m \in DOMAIN chatmessage' :
                                chatmessage'[m] = chatmessage[m]
                     ELSE /\ conversation' = conversation
                          /\ chatmessage' = chatmessage
                          /\ Len(r.messages) = Cardinality(Stored(r.id))]_vars

\* a conversation with its messages was deleted and the GET that followed was
\* answered 404
DeleteRemovesWitness ==
    /\ Len(reply) = 2
    /\ reply[1] = [method |-> "DELETE", id |-> 1, status_code |-> 200, messages |-> <<>>]
    /\ reply[2] = [method |-> "GET", id |-> 1, status_code |-> 404, messages |-> <<>>]

\* C27: every stored chat message refers to a stored conversation, whatever
\* the interleaving of chat turns and DELETE requests and whatever id a chat
\* client supplies.
MessagesHaveConversation ==
    \A m \in DOMAIN chatmessage : chatmessage[m].conversation_id \in DOMAIN conversation

\* rows of a message table, oldest first (ties in id order)
RECURSIVE OldestFirst(_, _)
OldestFirst(table, ids) ==
    IF ids = {} THEN <<>>
    ELSE LET m == CHOOSE x \in ids : \A y \in ids :
                    \/ table[x].created_at < table[y].created_at
                    \/ table[x].created_at = table[y].created_at /\ x <= y
         IN  <<m>> \o OldestFirst(table, ids \ {m})

\* the messages a table holds for a conversation, oldest first, as the
\* provider's history: 'assistant' becomes 'model', every other role 'user'
PersistedHistory(table, cid) ==
    LET ids == OldestFirst(table, {m \in DOMAIN table : table[m].conversation_id = cid})
    IN  [i \in 1..Len(ids) |->
            Message(IF table[ids[i]].role = "assistant" THEN "model" ELSE "user",
                    <<TextPart(table[ids[i]].content)>>)]

\* C28: the history passed to the run of a turn equals the messages stored
\* under the connection's conversation at that moment, in creation order,
\* also when another connection is appending turns to the same conversation
\* (in a store whose messages all belong to stored conversations).
HistoryMatchesStore ==
    [][\A c \in DOMAIN chat :
          (TurnStarts(c) /\ MessagesHaveConversation) =>
              runs'[c].messages =
                  PersistedHistory(chatmessage', chat'[c].conversation_id[1])]_vars

\* a connection is in the middle of a turn of conversation cid
Busy(cid) ==
    \E c \in DOMAIN chat : chat[c].pc = "running" /\ chat[c].conversation_id = Some(cid)

\* C29: at every turn boundary the messages of a conversation alternate
\* strictly user, assistant, starting with user, also after a turn that a
\* client's disconnect or a provider error cut short.
MessagesAlternate ==
    \A cid \in DOMAIN conversation :
        ~Busy(cid) =>
            LET h == PersistedHistory(chatmessage, cid)
            IN  \A i \in DOMAIN h :
                   h[i].role = IF i % 2 = 1 THEN "user" ELSE "model"

----------------------------------------------------------------------------
(* Built-in schedule templates, tried on every minute of a day *)

MorningBriefing == <<"0", " ", "7", " ", "*", " ", "*", " ", "*">>
DailySummary == <<"0", " ", "2", "2", " ", "*", " ", "*", " ", "*">>
InboxTriage == <<"0", " ", "*", "/", "2", " ", "*", " ", "*", " ", "*">>

\* schedules.py TEMPLATES
TEMPLATES ==
    { [name |-> "Morning Briefing", cron_expression |-> MorningBriefing],
      [name |-> "Daily Summary", cron_expression |-> DailySummary],
      [name |-> "Inbox Triage", cron_expression |-> InboxTriage] }

\* 23:59 of the first day
LastMinute == 86400 - PollInterval

\* the scheduler's next poll of an action that has not matched yet, one
\* minute later
NextMinute ==
    /\ matcher.result = Some(FALSE)
    /\ now < LastMinute
    /\ now' = now + PollInterval
    /\ matcher' = [matcher EXCEPT !.result = None]
    /\ UNCHANGED <<provider, runs, sched, actions, records, tasks, requests,
                   env, registry, transport>>

InitTemplates ==
    /\ provider = <<Content(<<TextPart(Hello)>>)>>
    /\ runs = <<>>
    /\ now = 0
    /\ sched = [pc |-> "stopped", wake |-> 0, last |-> "none", evaluated |-> {}, batch |-> {}, next_task |-> 1, cycles |-> 0]
    /\ actions = <<>>
    /\ records = <<>>
    /\ tasks = <<>>
    /\ requests = 0
    /\ env = NoToken
    /\ registry = <<>>
    /\ \E t \in TEMPLATES : matcher = [cron_expr |-> t.cron_expression, result |-> None]
    /\ chat = <<>>
    /\ conversation = <<>>
    /\ chatmessage = <<>>
    /\ reply = <<>>

NextTemplates == Match \/ NextMinute

SpecTemplates == InitTemplates /\ [][NextTemplates]_vars

\* C25: every built-in template carries an expression the matcher can
\* satisfy: polled once a minute, an action created from it matches within
\* a day (each template leaves day, month and weekday free).
TemplateMatchesWithinADay ==
    (now = LastMinute /\ matcher.result # None) => matcher.result = Some(TRUE)

====
